---- MODULE Spec2Model ----
(***************************************************************************)
(* Subscription state store of the RevenueCat + Expo template:             *)
(*   components/RevenueCatProvider.tsx  (the store and its operations)     *)
(*   hooks/usePurchases (the wrapper with loading flags and alerts)        *)
(*   app/paywall, app/(tabs)/profile    (the screens' handlers)            *)
(*   constants/RevenueCat.ts            (configuration and validation)     *)
(*                                                                         *)
(* Every asynchronous operation is split at its await: a "start" action    *)
(* runs the code up to the call of the purchasing service, a "settle"      *)
(* action runs the code after the service has answered.  Other operations  *)
(* may run between the two.  The variable event describes the step that    *)
(* led to the current state, so that pre/post conditions of an operation   *)
(* are state predicates.                                                   *)
(***************************************************************************)
EXTENDS Integers, Sequences, FiniteSets, TLC

(***************************************************************************)
(* Bounds                                                                  *)
(***************************************************************************)
\* user-initiated store operations (purchase, restore, refresh) per run
MaxOps == 3
\* refreshes that may be awaiting the service at the same time
MaxRefreshInFlight == 2

(***************************************************************************)
(* JavaScript values                                                       *)
(***************************************************************************)
\* null / undefined for object-valued fields
Null == [tag |-> "null"]
Undefined == [tag |-> "undefined"]
\* null of the field error : string | null
NoError == "<null>"

\* obj?.[key]
Get(obj, key) ==
  IF obj \in {Null, Undefined} THEN Undefined
  ELSE IF key \in DOMAIN obj THEN obj[key] ELSE Undefined

\* message || fallback  (the empty string is falsy)
MsgOr(message, fallback) == IF message = "" THEN fallback ELSE message

(***************************************************************************)
(* constants/RevenueCat.ts                                                 *)
(* A string is a sequence of tokens; includes() looks for a token.         *)
(***************************************************************************)
Unset == << >>
Includes(str, token) == \E i \in 1..Len(str) : str[i] = token
\* env value || placeholder
EnvOr(value, placeholder) == IF value = Unset THEN placeholder ELSE value

TEST_PLACEHOLDER == <<"test_", "your_", "api_key", "_here">>
IOS_PLACEHOLDER == <<"appl_", "your_", "ios_key", "_here">>
ANDROID_PLACEHOLDER == <<"goog_", "your_", "android_key", "_here">>
WEB_PLACEHOLDER == <<"rcb_", "your_", "web_key", "_here">>

REVENUECAT_CONFIG(e) ==
  [ TEST_API_KEY    |-> EnvOr(e.REVENUECAT_TEST_API_KEY, TEST_PLACEHOLDER),
    IOS_API_KEY     |-> EnvOr(e.REVENUECAT_IOS_API_KEY, IOS_PLACEHOLDER),
    ANDROID_API_KEY |-> EnvOr(e.REVENUECAT_ANDROID_API_KEY, ANDROID_PLACEHOLDER),
    WEB_API_KEY     |-> EnvOr(e.REVENUECAT_WEB_API_KEY, WEB_PLACEHOLDER),
    USE_TEST_STORE  |-> e.REVENUECAT_USE_TEST_STORE # <<"false">> ]

ENTITLEMENT_ID == "premium"

\* mutant: the test-store flag is ignored
getPlatformApiKey_ignoresTestStore(cfg, os) ==
  CASE os = "ios" -> cfg.IOS_API_KEY
    [] os = "android" -> cfg.ANDROID_API_KEY
    [] os = "web" -> cfg.WEB_API_KEY
    [] OTHER -> cfg.IOS_API_KEY
getPlatformApiKey(cfg, os) ==
  IF cfg.USE_TEST_STORE THEN cfg.TEST_API_KEY
  ELSE CASE os = "ios" -> cfg.IOS_API_KEY
         [] os = "android" -> cfg.ANDROID_API_KEY
         [] os = "web" -> cfg.WEB_API_KEY
         [] OTHER -> cfg.IOS_API_KEY

\* mutant: only a missing key is rejected, a placeholder passes
validateRevenueCatConfig_missingOnly(cfg, os) ==
  getPlatformApiKey(cfg, os) # << >>
validateRevenueCatConfig(cfg, os) ==
  LET apiKey == getPlatformApiKey(cfg, os)
  IN  ~(apiKey = << >> \/ Includes(apiKey, "your_") \/ Includes(apiKey, "_here"))

(***************************************************************************)
(* unnamed/part_000: the configuration module without a test store.  Its   *)
(* strings are cut the same way: every occurrence of "your_" or "_here"    *)
(* in a string is a token of its own, so these placeholders have none.     *)
(***************************************************************************)
Part000_IOS_PLACEHOLDER == <<"<", "your-", "ios-api-key", ">">>
Part000_ANDROID_PLACEHOLDER == <<"<", "your-", "android-api-key", ">">>
Part000_WEB_PLACEHOLDER == <<"<", "your-", "web-billing-api-key", ">">>

Part000_REVENUECAT_CONFIG(e) ==
  [ IOS_API_KEY     |-> EnvOr(e.REVENUECAT_IOS_API_KEY, Part000_IOS_PLACEHOLDER),
    ANDROID_API_KEY |-> EnvOr(e.REVENUECAT_ANDROID_API_KEY, Part000_ANDROID_PLACEHOLDER),
    WEB_API_KEY     |-> EnvOr(e.REVENUECAT_WEB_API_KEY, Part000_WEB_PLACEHOLDER) ]

Part000_getPlatformApiKey(cfg, os) ==
  CASE os = "ios" -> cfg.IOS_API_KEY
    [] os = "android" -> cfg.ANDROID_API_KEY
    [] os = "web" -> cfg.WEB_API_KEY
    [] OTHER -> cfg.IOS_API_KEY

Part000_validateRevenueCatConfig(cfg, os) ==
  LET apiKey == Part000_getPlatformApiKey(cfg, os)
  IN  ~(apiKey = << >> \/ Includes(apiKey, "your_") \/ Includes(apiKey, "_here"))

\* the environments and platforms the store is run in
NoEnv ==
  [ REVENUECAT_TEST_API_KEY |-> Unset, REVENUECAT_IOS_API_KEY |-> Unset,
    REVENUECAT_ANDROID_API_KEY |-> Unset, REVENUECAT_WEB_API_KEY |-> Unset,
    REVENUECAT_USE_TEST_STORE |-> Unset ]
ProdEnv ==
  [NoEnv EXCEPT !.REVENUECAT_USE_TEST_STORE = <<"false">>,
                !.REVENUECAT_IOS_API_KEY = <<"appl_", "k2">>,
                !.REVENUECAT_WEB_API_KEY = <<"rcb_", "k3">>]
Envs == {NoEnv, ProdEnv}
Platforms == {"ios", "android", "web"}

\* the environments and platforms the configuration modules are asked about:
\* every key given or not, the flag not given, "false", "true" or "FALSE",
\* and a platform identifier that is none of the three
ConfigEnvs ==
  [ REVENUECAT_TEST_API_KEY : {Unset, <<"test_", "k1">>},
    REVENUECAT_IOS_API_KEY : {Unset, <<"appl_", "k2">>},
    REVENUECAT_ANDROID_API_KEY : {Unset, <<"goog_", "k4">>},
    REVENUECAT_WEB_API_KEY : {Unset, <<"rcb_", "k3">>},
    REVENUECAT_USE_TEST_STORE : {Unset, <<"false">>, <<"true">>, <<"FALSE">>} ]
ConfigPlatforms == Platforms \cup {"windows"}

(***************************************************************************)
(* Values delivered by the purchasing service                              *)
(***************************************************************************)
EntitlementIds == {"premium", "pro"}
EntitlementInfo(e) == [identifier |-> e, isActive |-> TRUE]
CustomerInfo(S) ==
  [ originalAppUserId |-> "user",
    entitlements |-> [active |-> [e \in S |-> EntitlementInfo(e)]] ]
Snapshots == {CustomerInfo(S) : S \in {{}, {"premium"}, {"pro"}}}

Package(id, price) == [identifier |-> id, storeProduct |-> [price |-> price]]
Offering(pkgs) == [identifier |-> "default", availablePackages |-> pkgs]
NoCurrent == [current |-> Null, all |-> [o \in {} |-> Null]]
WithCurrent(o) == [current |-> o, all |-> [i \in {o.identifier} |-> o]]
OneOffering == Offering(<<Package("monthly", 5)>>)
TwoOffering == Offering(<<Package("annual", 40), Package("monthly", 5)>>)
OfferingsValues == {NoCurrent, WithCurrent(OneOffering), WithCurrent(TwoOffering)}

\* failures of a service call: a message and, for purchase, a cancellation flag
Messages == {"", "network error"}
Failures == {[message |-> m, userCancelled |-> FALSE] : m \in Messages}
Cancelled == [message |-> "cancelled", userCancelled |-> TRUE]
Ok(v) == [ok |-> TRUE, value |-> v]
Err(e) == [ok |-> FALSE, err |-> e]

(***************************************************************************)
(* State                                                                   *)
(***************************************************************************)
VARIABLES
  platform, env,                 \* Platform.OS, process.env
  isInitialized, isLoading, error, customerInfo, offerings,   \* useState
  currentOffering, isPremium,    \* derived at render
  initPc,                        \* position of initializeRevenueCat
  initClean,                     \* no other operation wrote the store meanwhile
  listeners,                     \* listeners registered with the service
  calls,                         \* calls made to the purchasing service
  purchase, restore, refreshes,  \* operations awaiting the service
  purchaseLoading, restoreLoading,   \* usePurchases useState
  selectedPackageIndex,          \* PaywallScreen useState
  opsStarted,
  disk, script,                  \* the project directory, the reset script
  event                          \* the step that led to this state

storeVars == <<isInitialized, isLoading, error, customerInfo, offerings>>
vars == <<platform, env, isInitialized, isLoading, error, customerInfo,
          offerings, currentOffering, isPremium, initPc, initClean, listeners,
          calls, purchase, restore, refreshes, purchaseLoading, restoreLoading,
          selectedPackageIndex, opsStarted, disk, script, event>>

\* the project directory as the template ships it; the reset script is run
\* from a shell, never by the app
oldDirs == <<"app", "components", "hooks", "constants", "scripts">>
TemplateAppFiles == {"_layout.tsx", "(tabs)", "paywall.tsx"}
TemplateDisk ==
  [ root |-> {"app", "components", "hooks", "constants", "scripts", "assets"},
    appFiles |-> TemplateAppFiles, hasExample |-> FALSE, example |-> {} ]
NotStarted == [pc |-> "none"]
NoReset == disk = TemplateDisk /\ script = NotStarted

Idle == [tag |-> "idle"]
NoCalls ==
  [ configure |-> 0, getCustomerInfo |-> 0, getOfferings |-> 0,
    addCustomerInfoUpdateListener |-> 0, purchasePackage |-> 0,
    restorePurchases |-> 0 ]

\* the store as one value
Store ==
  [ isInitialized |-> isInitialized, isLoading |-> isLoading, error |-> error,
    customerInfo |-> customerInfo, offerings |-> offerings ]

(***************************************************************************)
(* RevenueCatProvider: derived state                                       *)
(***************************************************************************)
\* offerings?.current || null
CurrentOfferingOf(offs) ==
  LET c == Get(offs, "current") IN IF c \in {Null, Undefined} THEN Null ELSE c

\* customerInfo?.entitlements?.active?.[id] != null
hasEntitlement(ci, id) ==
  Get(Get(Get(ci, "entitlements"), "active"), id) \notin {Null, Undefined}

\* mutant: any active entitlement counts as the configured one
IsPremiumOf_anyEntitlement(ci) ==
  Get(Get(ci, "entitlements"), "active") \notin {Null, Undefined, [e \in {} |-> Null]}
IsPremiumOf(ci) == hasEntitlement(ci, ENTITLEMENT_ID)

\* every step ends with a render of the provider
Render ==
  /\ currentOffering' = CurrentOfferingOf(offerings')
  /\ isPremium' = IsPremiumOf(customerInfo')

Init ==
  /\ platform \in Platforms
  /\ env \in Envs
  /\ isInitialized = FALSE
  /\ isLoading = TRUE
  /\ error = NoError
  /\ customerInfo = Null
  /\ offerings = Null
  /\ currentOffering = Null
  /\ isPremium = FALSE
  /\ initPc = "mount"
  /\ initClean = TRUE
  /\ listeners = 0
  /\ calls = NoCalls
  /\ purchase = Idle
  /\ restore = Idle
  /\ refreshes = << >>
  /\ purchaseLoading = FALSE
  /\ restoreLoading = FALSE
  /\ selectedPackageIndex = 1
  /\ opsStarted = 0
  /\ NoReset
  /\ event = [op |-> "none"]

(***************************************************************************)
(* Helpers of the actions                                                  *)
(***************************************************************************)
SetStore(st) ==
  /\ isInitialized' = st.isInitialized
  /\ isLoading' = st.isLoading
  /\ error' = st.error
  /\ customerInfo' = st.customerInfo
  /\ offerings' = st.offerings

\* an operation awaiting the service whose error field another step has set
Soiled(slot, wrote) ==
  IF slot = Idle \/ ~wrote THEN slot ELSE [slot EXCEPT !.clean = FALSE]
SoiledAll(slots, wrote) == [i \in 1..Len(slots) |-> Soiled(slots[i], wrote)]
\* a step of another operation that changes error or customerInfo
Disturbs == error' # error \/ customerInfo' # customerInfo
\* initClean is followed while initializeRevenueCat awaits the service
InitCleanNext == IF initPc = "done" THEN initClean ELSE initClean /\ ~Disturbs
\* the fields of the store that differ between two values of it
Changed(old, new) == {f \in DOMAIN old : old[f] # new[f]}

\* mutant: the setter merges the new snapshot into the one it holds
setCustomerInfo_merge(st, info) ==
  IF st.customerInfo = Null \/ info = Null
  THEN [st EXCEPT !.customerInfo = info]
  ELSE [st EXCEPT !.customerInfo =
          CustomerInfo(DOMAIN st.customerInfo.entitlements.active
                       \cup DOMAIN info.entitlements.active)]
\* setCustomerInfo(info): the state setter replaces the value it holds
setCustomerInfo(st, info) == [st EXCEPT !.customerInfo = info]

\* a push arrived while the refreshes were awaiting the service
Overtaken(slots) == [i \in 1..Len(slots) |-> [slots[i] EXCEPT !.overtaken = TRUE]]

\* the sequence without its i-th element
Without(seq, i) == SubSeq(seq, 1, i - 1) \o SubSeq(seq, i + 1, Len(seq))

(***************************************************************************)
(* RevenueCatProvider.initializeRevenueCat / loadInitialData               *)
(* Each operator is the code between two awaits, as a function of the      *)
(* store: it returns the new store and what else the code did.             *)
(***************************************************************************)
DEMO_ADVISORY == "Running in demo mode - configure RevenueCat for full functionality"

\* mutant: isLoading is reset at the end of the try block, not in a finally
initializeRevenueCat_catch_noFinally(st) ==
  [st EXCEPT !.isInitialized = TRUE, !.customerInfo = Null,
             !.offerings = NoCurrent, !.error = DEMO_ADVISORY]
\* the catch and finally blocks of initializeRevenueCat
initializeRevenueCat_catch(st) ==
  [st EXCEPT !.isInitialized = TRUE, !.customerInfo = Null,
             !.offerings = NoCurrent, !.error = DEMO_ADVISORY,
             !.isLoading = FALSE]

\* mutant: the demo branch does not mark the store initialized
initializeRevenueCat_begin_demoNotInitialized(st, cfg, os) ==
  LET s1 == [st EXCEPT !.isLoading = TRUE, !.error = NoError]
  IN  IF ~validateRevenueCatConfig(cfg, os)
      THEN [ st |-> [s1 EXCEPT !.customerInfo = Null,
                               !.offerings = NoCurrent, !.isLoading = FALSE],
             pc |-> "done", configure |-> FALSE ]
      ELSE [ st |-> s1, pc |-> "configure", configure |-> TRUE ]
\* from the mount effect to the first await (or to the return in demo mode)
initializeRevenueCat_begin(st, cfg, os) ==
  LET s1 == [st EXCEPT !.isLoading = TRUE, !.error = NoError]
  IN  IF ~validateRevenueCatConfig(cfg, os)
      THEN [ st |-> [s1 EXCEPT !.isInitialized = TRUE, !.customerInfo = Null,
                               !.offerings = NoCurrent, !.isLoading = FALSE],
             pc |-> "done", configure |-> FALSE ]
      ELSE [ st |-> s1, pc |-> "configure", configure |-> TRUE ]

\* mutant: the initial data is loaded after a failed configure as well
initializeRevenueCat_configured_loadAnyway(st, resp) ==
  IF resp.ok
  THEN [ st |-> [st EXCEPT !.isInitialized = TRUE], pc |-> "load", fetch |-> TRUE ]
  ELSE [ st |-> initializeRevenueCat_catch(st), pc |-> "load", fetch |-> TRUE ]
\* after await Purchases.configure(...)
initializeRevenueCat_configured(st, resp) ==
  IF resp.ok
  THEN [ st |-> [st EXCEPT !.isInitialized = TRUE], pc |-> "load", fetch |-> TRUE ]
  ELSE [ st |-> initializeRevenueCat_catch(st), pc |-> "done", fetch |-> FALSE ]

\* mutant: the results are taken one by one, a failed one as null
PromiseAll_allSettled(ci, offs, failure) ==
  Ok(<<IF ci.ok THEN ci.value ELSE Null, IF offs.ok THEN offs.value ELSE Null>>)
\* Promise.all([getCustomerInfo(), getOfferings()]): both values, or the
\* rejection of the call that failed
PromiseAll(ci, offs, failure) ==
  IF ci.ok /\ offs.ok THEN Ok(<<ci.value, offs.value>>) ELSE Err(failure)

\* mutant: the failure's message is stored without the default
loadInitialData_settled_noDefault(st, ci, offs, failure) ==
  LET all == PromiseAll(ci, offs, failure)
  IN  IF all.ok
      THEN [ st |-> [st EXCEPT !.customerInfo = all.value[1], !.offerings = all.value[2],
                               !.isLoading = FALSE],
             listen |-> TRUE ]
      ELSE [ st |-> [st EXCEPT !.error = all.err.message, !.isLoading = FALSE],
             listen |-> FALSE ]
\* loadInitialData after await Promise.all([getCustomerInfo(), getOfferings()]),
\* followed by the finally block of initializeRevenueCat; failure is the
\* rejection Promise.all settles with when one of the two calls failed
loadInitialData_settled(st, ci, offs, failure) ==
  LET all == PromiseAll(ci, offs, failure)
  IN  IF all.ok
      THEN [ st |-> [st EXCEPT !.customerInfo = all.value[1], !.offerings = all.value[2],
                               !.isLoading = FALSE],
             listen |-> TRUE ]
      ELSE [ st |-> [st EXCEPT !.error = MsgOr(all.err.message, "Failed to load RevenueCat data"),
                               !.isLoading = FALSE],
             listen |-> FALSE ]

\* useEffect(() => { initializeRevenueCat() }, [])
Mount ==
  /\ initPc = "mount"
  /\ LET r == initializeRevenueCat_begin(Store, REVENUECAT_CONFIG(env), platform)
     IN  /\ SetStore(r.st)
         /\ initPc' = r.pc
         /\ calls' = IF r.configure THEN [calls EXCEPT !.configure = @ + 1] ELSE calls
         /\ event' = [op |-> "init", step |-> "mount", changed |-> Changed(Store, Store'),
                      valid |-> r.configure]
  /\ UNCHANGED <<platform, env, initClean, listeners, purchase, restore,
                 refreshes, purchaseLoading, restoreLoading,
                 selectedPackageIndex, opsStarted>>
  /\ Render
  /\ UNCHANGED <<disk, script>>

\* Purchases.configure settles
ConfigureSettles ==
  /\ initPc = "configure"
  /\ \E resp \in {Ok(Null)} \cup {Err(f) : f \in Failures} :
       LET r == initializeRevenueCat_configured(Store, resp)
       IN  /\ SetStore(r.st)
           /\ initPc' = r.pc
           /\ calls' = IF r.fetch
                       THEN [calls EXCEPT !.getCustomerInfo = @ + 1,
                                          !.getOfferings = @ + 1]
                       ELSE calls
           /\ purchase' = Soiled(purchase, Disturbs)
           /\ restore' = Soiled(restore, Disturbs)
           /\ refreshes' = SoiledAll(refreshes, Disturbs)
           /\ event' = [op |-> "init", step |-> "configure", changed |-> Changed(Store, Store'),
                        ok |-> resp.ok, clean |-> initClean]
  /\ UNCHANGED <<platform, env, initClean, listeners, purchaseLoading,
                 restoreLoading, selectedPackageIndex, opsStarted>>
  /\ Render
  /\ UNCHANGED <<disk, script>>

\* Promise.all([getCustomerInfo(), getOfferings()]) settles
LoadSettles ==
  /\ initPc = "load"
  /\ \E ci \in {Ok(s) : s \in Snapshots} \cup {Err(f) : f \in Failures},
        offs \in {Ok(o) : o \in OfferingsValues} \cup {Err(f) : f \in Failures} :
       \E failure \in {x.err : x \in {y \in {ci, offs} : ~y.ok}} \cup
                      (IF ci.ok /\ offs.ok THEN {Null} ELSE {}) :
         LET r == loadInitialData_settled(Store, ci, offs, failure)
         IN  /\ SetStore(r.st)
             /\ listeners' = IF r.listen THEN listeners + 1 ELSE listeners
             /\ calls' = IF r.listen
                         THEN [calls EXCEPT !.addCustomerInfoUpdateListener = @ + 1]
                         ELSE calls
             /\ purchase' = Soiled(purchase, Disturbs)
             /\ restore' = Soiled(restore, Disturbs)
             /\ refreshes' = SoiledAll(refreshes, Disturbs)
             /\ event' = [op |-> "init", step |-> "load", changed |-> Changed(Store, Store'),
                          ci |-> ci, offs |-> offs, failure |-> failure,
                          clean |-> initClean]
  /\ initPc' = "done"
  /\ UNCHANGED <<platform, env, initClean, purchaseLoading, restoreLoading,
                 selectedPackageIndex, opsStarted>>
  /\ Render
  /\ UNCHANGED <<disk, script>>

\* mutant: the listener drops the pushed value
customerInfoUpdateListener_ignore(st, info) == st
\* the listener registered by loadInitialData is called by the service
customerInfoUpdateListener(st, info) == setCustomerInfo(st, info)

Push ==
  /\ listeners > 0
  /\ \E info \in Snapshots :
       /\ SetStore(customerInfoUpdateListener(Store, info))
       /\ event' = [op |-> "push", changed |-> Changed(Store, Store'), info |-> info]
  /\ purchase' = Soiled(purchase, Disturbs)
  /\ restore' = Soiled(restore, Disturbs)
  /\ refreshes' = Overtaken(SoiledAll(refreshes, Disturbs))
  /\ initClean' = InitCleanNext
  /\ UNCHANGED <<platform, env, initPc, listeners, calls, purchaseLoading,
                 restoreLoading, selectedPackageIndex, opsStarted>>
  /\ Render
  /\ UNCHANGED <<disk, script>>

(***************************************************************************)
(* RevenueCatProvider: purchasePackage, restorePurchases,                  *)
(* refreshCustomerInfo                                                     *)
(***************************************************************************)
\* mutant: the error of an earlier operation is not cleared
Provider_purchasePackage_begin_keepError(st) == st
\* purchasePackage up to await Purchases.purchasePackage(...)
Provider_purchasePackage_begin(st) == [st EXCEPT !.error = NoError]

\* mutant: a cancellation is handled as any other failure
Provider_purchasePackage_settled_cancelIsError(st, resp) ==
  IF resp.ok
  THEN [ st |-> [st EXCEPT !.customerInfo = resp.value], raised |-> FALSE ]
  ELSE [ st |-> [st EXCEPT !.error = MsgOr(resp.err.message, "Purchase failed")],
         raised |-> TRUE ]
\* purchasePackage after the await
Provider_purchasePackage_settled(st, resp) ==
  IF resp.ok
  THEN [ st |-> setCustomerInfo(st, resp.value), raised |-> FALSE ]
  ELSE IF ~resp.err.userCancelled
       THEN [ st |-> [st EXCEPT !.error = MsgOr(resp.err.message, "Purchase failed")],
              raised |-> TRUE ]
       ELSE [ st |-> st, raised |-> FALSE ]

\* mutant: a refresh puts the store back into its state before initialization
refreshCustomerInfo_begin_resetsInit(st) ==
  [st EXCEPT !.error = NoError, !.isInitialized = FALSE, !.isLoading = TRUE]
\* refreshCustomerInfo up to await Purchases.getCustomerInfo()
refreshCustomerInfo_begin(st) == [st EXCEPT !.error = NoError]

\* mutant: a failed refresh also drops the snapshot
refreshCustomerInfo_settled_dropsSnapshot(st, resp) ==
  IF resp.ok
  THEN [st EXCEPT !.customerInfo = resp.value]
  ELSE [st EXCEPT !.error = MsgOr(resp.err.message, "Failed to refresh customer info"),
                  !.customerInfo = Null]
\* refreshCustomerInfo after the await; it never raises
refreshCustomerInfo_settled(st, resp) ==
  IF resp.ok
  THEN setCustomerInfo(st, resp.value)
  ELSE [st EXCEPT !.error = MsgOr(resp.err.message, "Failed to refresh customer info")]

\* mutant: no branch for the web platform
Provider_restorePurchases_begin_noWebBranch(st, os) ==
  [ st |-> [st EXCEPT !.error = NoError], call |-> "restorePurchases" ]
\* restorePurchases up to the await; call is the service operation it invokes
Provider_restorePurchases_begin(st, os) ==
  LET s1 == [st EXCEPT !.error = NoError]
  IN  IF os = "web"
      THEN [ st |-> refreshCustomerInfo_begin(s1), call |-> "getCustomerInfo" ]
      ELSE [ st |-> s1, call |-> "restorePurchases" ]

\* mutant: a failed restore is not raised again
Provider_restorePurchases_settled_noRethrow(st, call, resp) ==
  IF call = "getCustomerInfo"
  THEN [ st |-> refreshCustomerInfo_settled(st, resp), raised |-> FALSE ]
  ELSE IF resp.ok
       THEN [ st |-> [st EXCEPT !.customerInfo = resp.value], raised |-> FALSE ]
       ELSE [ st |-> [st EXCEPT !.error = MsgOr(resp.err.message, "Failed to restore purchases")],
              raised |-> FALSE ]
\* restorePurchases after the await
Provider_restorePurchases_settled(st, call, resp) ==
  IF call = "getCustomerInfo"
  THEN [ st |-> refreshCustomerInfo_settled(st, resp), raised |-> FALSE ]
  ELSE IF resp.ok
       THEN [ st |-> setCustomerInfo(st, resp.value), raised |-> FALSE ]
       ELSE [ st |-> [st EXCEPT !.error = MsgOr(resp.err.message, "Failed to restore purchases")],
              raised |-> TRUE ]

(***************************************************************************)
(* usePurchases: the wrappers and getPackagesSortedByPrice                 *)
(***************************************************************************)
NoAlert == "<none>"

\* String.prototype.includes on a message, case-sensitive; the optional
\* chaining of error.message?.includes gives a falsy value for no message
includes(str, search) ==
  \E i \in 1..(Len(str) - Len(search) + 1) : SubSeq(str, i, i + Len(search) - 1) = search

\* mutant: the payment test comes before the network test
errorMessage_paymentFirst(err, os) ==
  IF includes(err.message, "payment")
  THEN "There was an issue processing your payment. Please try again."
  ELSE IF includes(err.message, "network")
  THEN "Please check your internet connection and try again."
  ELSE IF os = "web" /\ includes(err.message, "billing")
  THEN "Web billing is not configured. Please contact support."
  ELSE "Please try again later."
\* the user-friendly errorMessage of the catch block of purchasePackage
errorMessage(err, os) ==
  IF includes(err.message, "network")
  THEN "Please check your internet connection and try again."
  ELSE IF includes(err.message, "payment")
  THEN "There was an issue processing your payment. Please try again."
  ELSE IF os = "web" /\ includes(err.message, "billing")
  THEN "Web billing is not configured. Please contact support."
  ELSE "Please try again later."

\* mutant: the failure is shown but not raised again
usePurchases_purchasePackage_settled_swallow(raised, err, os) ==
  IF ~raised
  THEN [ alert |-> "Purchase Successful!", raised |-> FALSE, loading |-> FALSE,
         message |-> "Thank you for your purchase. You now have access to premium features!" ]
  ELSE IF ~err.userCancelled
       THEN [ alert |-> "Purchase Failed", raised |-> FALSE, loading |-> FALSE,
              message |-> errorMessage(err, os) ]
       ELSE [ alert |-> NoAlert, raised |-> FALSE, loading |-> FALSE, message |-> NoAlert ]
\* purchasePackage after await revenueCatContext.purchasePackage(...):
\* raised tells whether the provider raised, err is what it raised;
\* loading is purchaseLoading as the finally block leaves it
usePurchases_purchasePackage_settled(raised, err, os) ==
  IF ~raised
  THEN [ alert |-> "Purchase Successful!", raised |-> FALSE, loading |-> FALSE,
         message |-> "Thank you for your purchase. You now have access to premium features!" ]
  ELSE IF ~err.userCancelled
       THEN [ alert |-> "Purchase Failed", raised |-> TRUE, loading |-> FALSE,
              message |-> errorMessage(err, os) ]
       ELSE [ alert |-> NoAlert, raised |-> FALSE, loading |-> FALSE, message |-> NoAlert ]

\* mutant: the flag is reset after the try block instead of in a finally
usePurchases_restorePurchases_settled_noFinally(raised, os) ==
  IF ~raised
  THEN [ alert |-> IF os # "web" THEN "Restore Successful" ELSE NoAlert,
         raised |-> FALSE, loading |-> FALSE ]
  ELSE [ alert |-> "Restore Failed", raised |-> TRUE, loading |-> TRUE ]
\* restorePurchases after await revenueCatContext.restorePurchases();
\* loading is restoreLoading as the finally block leaves it
usePurchases_restorePurchases_settled(raised, os) ==
  IF ~raised
  THEN [ alert |-> IF os # "web" THEN "Restore Successful" ELSE NoAlert,
         raised |-> FALSE, loading |-> FALSE ]
  ELSE [ alert |-> "Restore Failed", raised |-> TRUE, loading |-> FALSE ]

\* a.storeProduct?.price || a.product?.price || 0
PriceOf(p) ==
  IF "storeProduct" \in DOMAIN p /\ "price" \in DOMAIN p.storeProduct
     /\ p.storeProduct.price # 0
  THEN p.storeProduct.price
  ELSE IF "product" \in DOMAIN p /\ "price" \in DOMAIN p.product
       THEN p.product.price
       ELSE 0

\* the stable sort of [...packages].sort((a, b) => priceA - priceB)
RECURSIVE InsertByPrice(_, _)
InsertByPrice(sorted, p) ==
  IF sorted = << >> THEN <<p>>
  ELSE IF PriceOf(sorted[Len(sorted)]) <= PriceOf(p)
       THEN Append(sorted, p)
       ELSE Append(InsertByPrice(SubSeq(sorted, 1, Len(sorted) - 1), p),
                   sorted[Len(sorted)])
RECURSIVE SortByPrice(_)
SortByPrice(pkgs) ==
  IF pkgs = << >> THEN << >>
  ELSE InsertByPrice(SortByPrice(SubSeq(pkgs, 1, Len(pkgs) - 1)), pkgs[Len(pkgs)])

\* mutant: the copy is returned without sorting it
getPackagesSortedByPrice_unsorted(co) ==
  IF co = Null THEN << >> ELSE co.availablePackages
getPackagesSortedByPrice(co) ==
  SortByPrice(IF co = Null THEN << >> ELSE co.availablePackages)

(***************************************************************************)
(* usePurchases: the display utilities.  A product is a record             *)
(*   [priceString, price, introPrice], an introductory price a record      *)
(*   [priceString, price, subscriptionPeriod, cycles];                     *)
(* a missing string is "", a missing number << >> (a number n is <<n>>),   *)
(* a missing object Null.  Price strings are strings; a subscription       *)
(* period is the sequence of its characters, which the pattern reads.      *)
(***************************************************************************)
\* a || b on strings: the empty string is falsy
StrOr(a, b) == IF a # "" THEN a ELSE b
\* n?.toString(), "" when n is missing
NumToString(n) == IF n = << >> THEN "" ELSE ToString(n[1])
\* a number that is present and not 0
Truthy(n) == n # << >> /\ n[1] # 0

\* packageItem.storeProduct || packageItem.product
ProductOf(packageItem) ==
  IF packageItem.storeProduct # Null THEN packageItem.storeProduct
  ELSE packageItem.product

\* storeProduct.priceString || storeProduct.price?.toString() || "Price unavailable"
MainPriceOf(storeProduct) ==
  StrOr(storeProduct.priceString,
        StrOr(NumToString(storeProduct.price), "Price unavailable"))

\* mutant: a single cycle is counted in periods too
formatPackagePrice_onePeriods(packageItem) ==
  LET storeProduct == ProductOf(packageItem)
  IN  IF storeProduct = Null THEN "Price unavailable"
      ELSE
        LET mainPrice == MainPriceOf(storeProduct)
            introPrice == storeProduct.introPrice
        IN  IF introPrice = Null THEN mainPrice
            ELSE
              LET introPriceString ==
                    StrOr(introPrice.priceString, NumToString(introPrice.price))
                  introPeriod == introPrice.subscriptionPeriod
                  introCycles == introPrice.cycles
              IN  IF introPrice.price = <<0>> \/ introPriceString = "$0.00"
                     \/ introPriceString = "0"
                  THEN IF introPeriod # << >> /\ Truthy(introCycles)
                       THEN "Free "
                            \o (IF introCycles[1] > 0
                                THEN ToString(introCycles[1]) \o " periods"
                                ELSE "trial")
                            \o ", then " \o mainPrice
                       ELSE "Free trial, then " \o mainPrice
                  ELSE IF introPriceString # "" /\ introPriceString # mainPrice
                       THEN IF introPeriod # << >> /\ Truthy(introCycles)
                            THEN introPriceString \o " for "
                                 \o (IF introCycles[1] > 0
                                     THEN ToString(introCycles[1]) \o " periods"
                                     ELSE "first period")
                                 \o ", then " \o mainPrice
                            ELSE introPriceString \o " intro, then " \o mainPrice
                       ELSE mainPrice
formatPackagePrice(packageItem) ==
  LET storeProduct == ProductOf(packageItem)
  IN  IF storeProduct = Null THEN "Price unavailable"
      ELSE
        LET mainPrice == MainPriceOf(storeProduct)
            introPrice == storeProduct.introPrice
        IN  IF introPrice = Null THEN mainPrice
            ELSE
              LET introPriceString ==
                    StrOr(introPrice.priceString, NumToString(introPrice.price))
                  introPeriod == introPrice.subscriptionPeriod
                  introCycles == introPrice.cycles
              IN  IF introPrice.price = <<0>> \/ introPriceString = "$0.00"
                     \/ introPriceString = "0"
                  THEN IF introPeriod # << >> /\ Truthy(introCycles)
                       THEN "Free "
                            \o (IF introCycles[1] > 1
                                THEN ToString(introCycles[1]) \o " periods"
                                ELSE "trial")
                            \o ", then " \o mainPrice
                       ELSE "Free trial, then " \o mainPrice
                  ELSE IF introPriceString # "" /\ introPriceString # mainPrice
                       THEN IF introPeriod # << >> /\ Truthy(introCycles)
                            THEN introPriceString \o " for "
                                 \o (IF introCycles[1] > 1
                                     THEN ToString(introCycles[1]) \o " periods"
                                     ELSE "first period")
                                 \o ", then " \o mainPrice
                            ELSE introPriceString \o " intro, then " \o mainPrice
                       ELSE mainPrice

\* \d and parseInt on a sequence of digits
Digits == {"0", "1", "2", "3", "4", "5", "6", "7", "8", "9"}
DigitValue(c) ==
  CASE c = "0" -> 0 [] c = "1" -> 1 [] c = "2" -> 2 [] c = "3" -> 3
    [] c = "4" -> 4 [] c = "5" -> 5 [] c = "6" -> 6 [] c = "7" -> 7
    [] c = "8" -> 8 [] c = "9" -> 9
RECURSIVE parseInt(_)
parseInt(ds) ==
  IF ds = << >> THEN 0
  ELSE 10 * parseInt(SubSeq(ds, 1, Len(ds) - 1)) + DigitValue(ds[Len(ds)])

\* the number of digits at the head of s
RECURSIVE DigitRun(_)
DigitRun(s) ==
  IF s # << >> /\ Head(s) \in Digits THEN 1 + DigitRun(Tail(s)) ELSE 0

\* the group (?:(\d+)U)? read at the head of s: what it captured (<< >>
\* when the group did not take part) and what is left of s
Group(s, unit) ==
  LET n == DigitRun(s)
  IN  IF n > 0 /\ Len(s) > n /\ s[n + 1] = unit
      THEN [capture |-> SubSeq(s, 1, n), rest |-> SubSeq(s, n + 2, Len(s))]
      ELSE [capture |-> << >>, rest |-> s]

\* period.match(/^P(?:(\d+)Y)?(?:(\d+)M)?(?:(\d+)W)?(?:(\d+)D)?$/)
PeriodMatch(period) ==
  IF period = << >> \/ Head(period) # "P" THEN Null
  ELSE LET y == Group(Tail(period), "Y")
           m == Group(y.rest, "M")
           w == Group(m.rest, "W")
           d == Group(w.rest, "D")
       IN  IF d.rest = << >>
           THEN [years |-> y.capture, months |-> m.capture,
                 weeks |-> w.capture, days |-> d.capture]
           ELSE Null

\* mutant: days are looked at before weeks
parseSubscriptionPeriod_daysFirst(period) ==
  IF period = << >> THEN Null
  ELSE LET match == PeriodMatch(period)
       IN  IF match = Null THEN Null
           ELSE IF match.days # << >>
                THEN [value |-> parseInt(match.days), unit |-> "day"]
           ELSE IF match.weeks # << >>
                THEN [value |-> parseInt(match.weeks), unit |-> "week"]
           ELSE IF match.months # << >>
                THEN [value |-> parseInt(match.months), unit |-> "month"]
           ELSE IF match.years # << >>
                THEN [value |-> parseInt(match.years), unit |-> "year"]
           ELSE Null
parseSubscriptionPeriod(period) ==
  IF period = << >> THEN Null
  ELSE LET match == PeriodMatch(period)
       IN  IF match = Null THEN Null
           ELSE IF match.weeks # << >>
                THEN [value |-> parseInt(match.weeks), unit |-> "week"]
           ELSE IF match.days # << >>
                THEN [value |-> parseInt(match.days), unit |-> "day"]
           ELSE IF match.months # << >>
                THEN [value |-> parseInt(match.months), unit |-> "month"]
           ELSE IF match.years # << >>
                THEN [value |-> parseInt(match.years), unit |-> "year"]
           ELSE Null

\* String.prototype.toLowerCase on one character and on a sequence of them
LowerChar(c) ==
  CASE c = "A" -> "a" [] c = "B" -> "b" [] c = "C" -> "c" [] c = "D" -> "d"
    [] c = "E" -> "e" [] c = "F" -> "f" [] c = "G" -> "g" [] c = "H" -> "h"
    [] c = "I" -> "i" [] c = "J" -> "j" [] c = "K" -> "k" [] c = "L" -> "l"
    [] c = "M" -> "m" [] c = "N" -> "n" [] c = "O" -> "o" [] c = "P" -> "p"
    [] c = "Q" -> "q" [] c = "R" -> "r" [] c = "S" -> "s" [] c = "T" -> "t"
    [] c = "U" -> "u" [] c = "V" -> "v" [] c = "W" -> "w" [] c = "X" -> "x"
    [] c = "Y" -> "y" [] c = "Z" -> "z"
    [] OTHER -> c
toLowerCase(chars) == [i \in 1..Len(chars) |-> LowerChar(chars[i])]
\* the string made of the characters
RECURSIVE Join(_)
Join(chars) == IF chars = << >> THEN "" ELSE Head(chars) \o Join(Tail(chars))

\* the zero test of getTrialInfo and getPurchaseButtonText
IsFreeIntro(introPrice) ==
  \/ introPrice.price = <<0>>
  \/ introPrice.priceString = "$0.00"
  \/ introPrice.priceString = "0"

\* null of a result of type string | null
NoLabel == "<null>"

\* mutant: a free trial is recognised by the numeric price alone
getPurchaseButtonText_priceOnly(packageItem) ==
  LET storeProduct == ProductOf(packageItem)
      hasFreeTrial == /\ storeProduct # Null
                      /\ storeProduct.introPrice # Null
                      /\ storeProduct.introPrice.price = <<0>>
  IN  IF hasFreeTrial THEN "Start for free"
      ELSE IF storeProduct # Null /\ storeProduct.subscriptionPeriod # << >>
      THEN "Subscribe now"
      ELSE "Purchase"
\* getPurchaseButtonText; a product's subscriptionPeriod is << >> when it is
\* null or undefined and <<p>> when it is the string p
getPurchaseButtonText(packageItem) ==
  LET storeProduct == ProductOf(packageItem)
      hasFreeTrial == /\ storeProduct # Null
                      /\ storeProduct.introPrice # Null
                      /\ IsFreeIntro(storeProduct.introPrice)
  IN  IF hasFreeTrial THEN "Start for free"
      ELSE IF storeProduct # Null /\ storeProduct.subscriptionPeriod # << >>
      THEN "Subscribe now"
      ELSE "Purchase"

\* mutant: the unit is pluralised for one unit too
getTrialInfo_alwaysPlural(packageItem) ==
  LET storeProduct == ProductOf(packageItem)
  IN  IF storeProduct = Null THEN NoLabel
      ELSE IF storeProduct.introPrice = Null THEN NoLabel
      ELSE
        LET introPrice == storeProduct.introPrice
        IN  IF ~IsFreeIntro(introPrice) THEN NoLabel
            ELSE
              LET periodUnits == introPrice.periodNumberOfUnits
                  periodUnit == introPrice.periodUnit
              IN  IF Truthy(periodUnits) /\ periodUnit # << >>
                  THEN LET lower == Join(toLowerCase(periodUnit))
                           displayUnit == lower \o "s"
                       IN  ToString(periodUnits[1]) \o " " \o displayUnit \o " free"
                  ELSE
                    LET cycles == IF Truthy(introPrice.cycles) THEN introPrice.cycles[1] ELSE 1
                        period == introPrice.subscriptionPeriod
                        parsedPeriod == parseSubscriptionPeriod(period)
                    IN  IF period # << >> /\ parsedPeriod # Null
                        THEN LET totalValue == parsedPeriod.value * cycles
                                 pluralUnit == parsedPeriod.unit \o "s"
                             IN  ToString(totalValue) \o " " \o pluralUnit \o " free"
                        ELSE IF cycles > 1
                             THEN ToString(cycles) \o " periods free"
                             ELSE "Free trial"
\* getTrialInfo: NoLabel is the null it returns; periodNumberOfUnits is a
\* number (<<n>> or << >>), periodUnit a sequence of characters
getTrialInfo(packageItem) ==
  LET storeProduct == ProductOf(packageItem)
  IN  IF storeProduct = Null THEN NoLabel
      ELSE IF storeProduct.introPrice = Null THEN NoLabel
      ELSE
        LET introPrice == storeProduct.introPrice
        IN  IF ~IsFreeIntro(introPrice) THEN NoLabel
            ELSE
              LET periodUnits == introPrice.periodNumberOfUnits
                  periodUnit == introPrice.periodUnit
              IN  IF Truthy(periodUnits) /\ periodUnit # << >>
                  THEN LET lower == Join(toLowerCase(periodUnit))
                           displayUnit ==
                             IF periodUnits[1] # 1
                             THEN (IF lower = "day" THEN "days"
                                   ELSE IF lower = "week" THEN "weeks"
                                   ELSE IF lower = "month" THEN "months"
                                   ELSE IF lower = "year" THEN "years"
                                   ELSE lower \o "s")
                             ELSE lower
                       IN  ToString(periodUnits[1]) \o " " \o displayUnit \o " free"
                  ELSE
                    LET cycles == IF Truthy(introPrice.cycles) THEN introPrice.cycles[1] ELSE 1
                        period == introPrice.subscriptionPeriod
                        parsedPeriod == parseSubscriptionPeriod(period)
                    IN  IF period # << >> /\ parsedPeriod # Null
                        THEN LET totalValue == parsedPeriod.value * cycles
                                 pluralUnit == IF totalValue = 1 THEN parsedPeriod.unit
                                               ELSE parsedPeriod.unit \o "s"
                             IN  ToString(totalValue) \o " " \o pluralUnit \o " free"
                        ELSE IF cycles > 1
                             THEN ToString(cycles) \o " periods free"
                             ELSE "Free trial"

(***************************************************************************)
(* Screens                                                                 *)
(***************************************************************************)
\* usePurchases.isConfigured(): isInitialized && !error
isConfigured(st) == st.isInitialized /\ st.error = NoError

\* usePurchases.getErrorMessage()
getErrorMessage(err) ==
  IF err = NoError THEN NoError
  ELSE IF includes(err, "configuration")
  THEN "RevenueCat is not properly configured. Please check your API keys in constants/RevenueCat.ts"
  ELSE IF includes(err, "network")
  THEN "Network error. Please check your internet connection."
  ELSE err

\* HomeScreen takes isConfigured from usePurchases() and tests it without
\* calling it: the value tested is the function, which is truthy
HomeScreen_isConfigured == TRUE

\* HomeScreen: the status card of the current render
HomeScreen_statusCard ==
  IF isLoading THEN "Loading subscription status..."
  ELSE IF ~HomeScreen_isConfigured THEN "Configuration Required"
  ELSE IF getErrorMessage(error) # NoError THEN "Error"
  ELSE IF isPremium THEN "Premium Active"
  ELSE "Free User"

\* usePaywall: packages.length > 0
hasPackages == currentOffering # Null /\ Len(currentOffering.availablePackages) > 0
sortedPackages == getPackagesSortedByPrice(currentOffering)

\* PaywallScreen.handlePurchase after await purchasePackage(selectedPackage):
\* router.replace("/") unless the wrapper raised
handlePurchase_settled(raised) == [navigated |-> ~raised]

\* ProfileScreen.handleRestorePurchases / handleRefresh after their await
handleRestorePurchases_settled(raised) ==
  [alert |-> IF raised THEN NoAlert ELSE "Success"]
handleRefresh_settled(raised) ==
  [alert |-> IF raised THEN "Error" ELSE "Refreshed"]

\* PaywallScreen: onPress={() => setSelectedPackageIndex(index)}
SelectPackage ==
  /\ hasPackages /\ ~isLoading /\ ~purchaseLoading
  /\ \E index \in 0..(Len(sortedPackages) - 1) :
       /\ selectedPackageIndex' = index
       /\ event' = [op |-> "select", index |-> index]
  /\ UNCHANGED <<platform, env, storeVars, currentOffering, isPremium, initPc,
                 initClean, listeners, calls, purchase, restore, refreshes,
                 purchaseLoading, restoreLoading, opsStarted, disk, script>>

\* PaywallScreen.handlePurchase -> usePurchases.purchasePackage ->
\* RevenueCatProvider.purchasePackage, up to the call of the service
PurchaseStart ==
  /\ opsStarted < MaxOps
  /\ hasPackages /\ ~isLoading /\ ~purchaseLoading
  /\ selectedPackageIndex + 1 <= Len(sortedPackages)
  /\ purchaseLoading' = TRUE
  /\ SetStore(Provider_purchasePackage_begin(Store))
  /\ calls' = [calls EXCEPT !.purchasePackage = @ + 1]
  /\ purchase' = [pkg |-> sortedPackages[selectedPackageIndex + 1],
                  errorAtCall |-> error, clean |-> TRUE]
  /\ restore' = Soiled(restore, Disturbs)
  /\ refreshes' = SoiledAll(refreshes, Disturbs)
  /\ initClean' = InitCleanNext
  /\ opsStarted' = opsStarted + 1
  /\ event' = [op |-> "purchaseStart", changed |-> Changed(Store, Store'),
               loadingAtCall |-> purchaseLoading']
  /\ UNCHANGED <<platform, env, initPc, listeners, restoreLoading,
                 selectedPackageIndex>>
  /\ Render
  /\ UNCHANGED <<disk, script>>

\* Purchases.purchasePackage settles; the provider, the wrapper and the
\* screen handler run to their end
PurchaseSettlesWith(failures) ==
  /\ purchase # Idle
  /\ \E resp \in {Ok(s) : s \in Snapshots} \cup {Err(f) : f \in failures} :
       LET p == Provider_purchasePackage_settled(Store, resp)
           h == usePurchases_purchasePackage_settled(p.raised,
                  IF resp.ok THEN Null ELSE resp.err, platform)
           s == handlePurchase_settled(h.raised)
       IN  /\ SetStore(p.st)
           /\ purchaseLoading' = h.loading
           /\ event' = [op |-> "purchase", resp |-> resp, changed |-> Changed(Store, Store'),
                        errorAtCall |-> purchase.errorAtCall, clean |-> purchase.clean,
                        providerRaised |-> p.raised, hookRaised |-> h.raised,
                        alert |-> h.alert, message |-> h.message,
                        navigated |-> s.navigated]
  /\ purchase' = Idle
  /\ restore' = Soiled(restore, Disturbs)
  /\ refreshes' = SoiledAll(refreshes, Disturbs)
  /\ initClean' = InitCleanNext
  /\ UNCHANGED <<platform, env, initPc, listeners, calls, restoreLoading,
                 selectedPackageIndex, opsStarted>>
  /\ Render
  /\ UNCHANGED <<disk, script>>

PurchaseSettles == PurchaseSettlesWith(Failures \cup {Cancelled})

\* usePurchases.restorePurchases -> RevenueCatProvider.restorePurchases, up
\* to the call of the service (from ProfileScreen.handleRestorePurchases
\* where the screen shows the button, from any other consumer on web)
RestoreStart ==
  /\ opsStarted < MaxOps
  /\ initPc # "mount"
  /\ ~restoreLoading
  /\ restoreLoading' = TRUE
  /\ LET r == Provider_restorePurchases_begin(Store, platform)
     IN  /\ SetStore(r.st)
         /\ calls' = [calls EXCEPT ![r.call] = @ + 1]
         /\ restore' = [call |-> r.call, clean |-> TRUE]
  /\ purchase' = Soiled(purchase, Disturbs)
  /\ refreshes' = SoiledAll(refreshes, Disturbs)
  /\ initClean' = InitCleanNext
  /\ opsStarted' = opsStarted + 1
  /\ event' = [op |-> "restoreStart", changed |-> Changed(Store, Store'),
               loadingAtCall |-> restoreLoading']
  /\ UNCHANGED <<platform, env, initPc, listeners, purchaseLoading,
                 selectedPackageIndex>>
  /\ Render
  /\ UNCHANGED <<disk, script>>

RestoreSettles ==
  /\ restore # Idle
  /\ \E resp \in {Ok(s) : s \in Snapshots} \cup {Err(f) : f \in Failures} :
       LET p == Provider_restorePurchases_settled(Store, restore.call, resp)
           h == usePurchases_restorePurchases_settled(p.raised, platform)
           s == handleRestorePurchases_settled(h.raised)
       IN  /\ SetStore(p.st)
           /\ restoreLoading' = h.loading
           /\ event' = [op |-> "restore", resp |-> resp, changed |-> Changed(Store, Store'),
                        call |-> restore.call,
                        clean |-> restore.clean,
                        providerRaised |-> p.raised, hookRaised |-> h.raised,
                        alert |-> h.alert,
                        screenAlert |-> IF platform = "web" THEN NoAlert ELSE s.alert]
  /\ restore' = Idle
  /\ purchase' = Soiled(purchase, Disturbs)
  /\ refreshes' = SoiledAll(refreshes, Disturbs)
  /\ initClean' = InitCleanNext
  /\ UNCHANGED <<platform, env, initPc, listeners, calls, purchaseLoading,
                 selectedPackageIndex, opsStarted>>
  /\ Render
  /\ UNCHANGED <<disk, script>>

\* ProfileScreen.handleRefresh -> RevenueCatProvider.refreshCustomerInfo
RefreshStart ==
  /\ opsStarted < MaxOps
  /\ initPc # "mount"
  /\ Len(refreshes) < MaxRefreshInFlight
  /\ SetStore(refreshCustomerInfo_begin(Store))
  /\ calls' = [calls EXCEPT !.getCustomerInfo = @ + 1]
  /\ refreshes' = Append(SoiledAll(refreshes, Disturbs),
                         [clean |-> TRUE, overtaken |-> FALSE])
  /\ purchase' = Soiled(purchase, Disturbs)
  /\ restore' = Soiled(restore, Disturbs)
  /\ initClean' = InitCleanNext
  /\ opsStarted' = opsStarted + 1
  /\ event' = [op |-> "refreshStart", changed |-> Changed(Store, Store'),
               serviceCalls |-> calls'.getCustomerInfo - calls.getCustomerInfo]
  /\ UNCHANGED <<platform, env, initPc, listeners, purchaseLoading,
                 restoreLoading, selectedPackageIndex>>
  /\ Render
  /\ UNCHANGED <<disk, script>>

RefreshSettles ==
  /\ \E i \in 1..Len(refreshes) :
       \E resp \in {Ok(s) : s \in Snapshots} \cup {Err(f) : f \in Failures} :
         /\ SetStore(refreshCustomerInfo_settled(Store, resp))
         /\ refreshes' = SoiledAll(Without(refreshes, i), Disturbs)
         /\ event' = [op |-> "refresh", resp |-> resp, changed |-> Changed(Store, Store'),
                      clean |-> refreshes[i].clean,
                      overtaken |-> refreshes[i].overtaken,
                      providerRaised |-> FALSE,
                      screenAlert |-> handleRefresh_settled(FALSE).alert]
  /\ purchase' = Soiled(purchase, Disturbs)
  /\ restore' = Soiled(restore, Disturbs)
  /\ initClean' = InitCleanNext
  /\ UNCHANGED <<platform, env, initPc, listeners, calls, purchaseLoading,
                 restoreLoading, selectedPackageIndex, opsStarted>>
  /\ Render
  /\ UNCHANGED <<disk, script>>

Next ==
  \/ Mount \/ ConfigureSettles \/ LoadSettles \/ Push
  \/ SelectPackage
  \/ PurchaseStart \/ PurchaseSettles
  \/ RestoreStart \/ RestoreSettles
  \/ RefreshStart \/ RefreshSettles

Spec == Init /\ [][Next]_vars

(***************************************************************************)
(* The configuration modules on their own: the environment and the         *)
(* platform are drawn from ConfigEnvs and ConfigPlatforms, and each step   *)
(* calls one of the exported functions; event holds what it returned.      *)
(***************************************************************************)
ConfigInit ==
  /\ platform \in ConfigPlatforms
  /\ env \in ConfigEnvs
  /\ isInitialized = FALSE /\ isLoading = TRUE /\ error = NoError
  /\ customerInfo = Null /\ offerings = Null
  /\ currentOffering = Null /\ isPremium = FALSE
  /\ initPc = "mount" /\ initClean = TRUE /\ listeners = 0 /\ calls = NoCalls
  /\ purchase = Idle /\ restore = Idle /\ refreshes = << >>
  /\ purchaseLoading = FALSE /\ restoreLoading = FALSE
  /\ selectedPackageIndex = 1 /\ opsStarted = 0
  /\ NoReset
  /\ event = [op |-> "none"]

AppUnchanged ==
  UNCHANGED <<platform, env, storeVars, currentOffering, isPremium, initPc,
              initClean, listeners, calls, purchase, restore, refreshes,
              purchaseLoading, restoreLoading, selectedPackageIndex, opsStarted>>
ConfigUnchanged == AppUnchanged /\ UNCHANGED <<disk, script>>

CallGetPlatformApiKey ==
  /\ event' = [op |-> "getPlatformApiKey", module |-> "constants/RevenueCat.ts",
               result |-> getPlatformApiKey(REVENUECAT_CONFIG(env), platform)]
  /\ ConfigUnchanged
CallValidateRevenueCatConfig ==
  /\ event' = [op |-> "validateRevenueCatConfig", module |-> "constants/RevenueCat.ts",
               result |-> validateRevenueCatConfig(REVENUECAT_CONFIG(env), platform)]
  /\ ConfigUnchanged
CallPart000GetPlatformApiKey ==
  /\ event' = [op |-> "getPlatformApiKey", module |-> "part_000",
               result |-> Part000_getPlatformApiKey(Part000_REVENUECAT_CONFIG(env), platform)]
  /\ ConfigUnchanged
CallPart000ValidateRevenueCatConfig ==
  /\ event' = [op |-> "validateRevenueCatConfig", module |-> "part_000",
               result |-> Part000_validateRevenueCatConfig(Part000_REVENUECAT_CONFIG(env), platform)]
  /\ ConfigUnchanged

ConfigNext ==
  \/ CallGetPlatformApiKey \/ CallValidateRevenueCatConfig
  \/ CallPart000GetPlatformApiKey \/ CallPart000ValidateRevenueCatConfig

ConfigSpec == ConfigInit /\ [][ConfigNext]_vars

(***************************************************************************)
(* The display utilities of usePurchases on their own: the store is live   *)
(* with a current offering of one package drawn from UtilPackages, and     *)
(* each step calls one utility on that package; event holds the argument   *)
(* and what the utility returned.                                          *)
(***************************************************************************)
\* subscription periods, character by character
Periods ==
  { << >>, <<"P">>, <<"P", "1", "W">>, <<"P", "7", "D">>, <<"P", "1", "M">>,
    <<"P", "1", "Y">>, <<"P", "0", "W">>, <<"P", "1", "0", "D">>,
    <<"P", "2", "W", "3", "D">>, <<"P", "1", "Y", "2", "M">>,
    <<"P", "6", "M", "5", "D">>, <<"P", "1", "Y", "2", "M", "3", "W", "4", "D">>,
    <<"P", "1", "D", "1", "W">>, <<"P", "W">>, <<"P", "1">>, <<"1", "W">>,
    <<"p", "1", "w">>, <<"P", "T", "1", "H">>, <<"P", "1", "W", " ">>,
    <<"g", "a", "r", "b", "a", "g", "e">> }
\* explicit period counts and units of an introductory price, and the
\* periods they are combined with
PeriodUnits ==
  { [n |-> <<1>>, u |-> <<"D", "A", "Y">>], [n |-> <<7>>, u |-> <<"D", "A", "Y">>],
    [n |-> <<2>>, u |-> <<"W", "E", "E", "K">>], [n |-> <<1>>, u |-> <<"M", "o", "n", "t", "h">>],
    [n |-> <<3>>, u |-> <<"Y", "E", "A", "R">>], [n |-> <<2>>, u |-> <<"C", "Y", "C", "L", "E">>],
    [n |-> <<7>>, u |-> << >>], [n |-> <<0>>, u |-> <<"D", "A", "Y">>],
    [n |-> << >>, u |-> <<"D", "A", "Y">>] }
PeriodsWithUnits == {<< >>, <<"P", "1", "W">>, <<"g", "a", "r", "b", "a", "g", "e">>}
IntroPrices ==
  [ priceString : {"", "$0.00", "0", "$4.99", "$9.99"},
    price : {<< >>, <<0>>, <<5>>},
    subscriptionPeriod : Periods,
    cycles : {<< >>, <<0>>, <<1>>, <<3>>},
    periodNumberOfUnits : {<< >>},
    periodUnit : {<< >>} ]
  \cup
  { [ priceString |-> b.priceString, price |-> b.price,
      subscriptionPeriod |-> b.subscriptionPeriod, cycles |-> b.cycles,
      periodNumberOfUnits |-> pu.n, periodUnit |-> pu.u ] :
    b \in [ priceString : {"", "$0.00", "0", "$4.99", "$9.99"},
            price : {<< >>, <<0>>, <<5>>},
            subscriptionPeriod : PeriodsWithUnits,
            cycles : {<< >>, <<0>>, <<1>>, <<3>>} ],
    pu \in PeriodUnits }
Products ==
  [ priceString : {"", "$9.99"},
    price : {<< >>, <<10>>},
    subscriptionPeriod : {<< >>, << <<"P", "1", "M">> >>},
    introPrice : {Null} \cup IntroPrices ]
UtilPackages ==
  {[identifier |-> "monthly", storeProduct |-> Null, product |-> Null]}
  \cup {[identifier |-> "monthly", storeProduct |-> sp, product |-> Null] : sp \in Products}
  \cup {[identifier |-> "monthly", storeProduct |-> Null, product |-> sp] : sp \in Products}

UtilInit ==
  /\ platform = "ios"
  /\ env = ProdEnv
  /\ isInitialized = TRUE /\ isLoading = FALSE /\ error = NoError
  /\ customerInfo = CustomerInfo({})
  /\ offerings \in {WithCurrent(Offering(<<p>>)) : p \in UtilPackages}
  /\ currentOffering = CurrentOfferingOf(offerings)
  /\ isPremium = IsPremiumOf(customerInfo)
  /\ initPc = "done" /\ initClean = TRUE /\ listeners = 1
  /\ calls = [NoCalls EXCEPT !.configure = 1, !.getCustomerInfo = 1,
                             !.getOfferings = 1,
                             !.addCustomerInfoUpdateListener = 1]
  /\ purchase = Idle /\ restore = Idle /\ refreshes = << >>
  /\ purchaseLoading = FALSE /\ restoreLoading = FALSE
  /\ selectedPackageIndex = 0 /\ opsStarted = 0
  /\ NoReset
  /\ event = [op |-> "none"]

\* the package the paywall shows
ShownPackage == currentOffering.availablePackages[1]

CallFormatPackagePrice ==
  /\ event' = [op |-> "formatPackagePrice", arg |-> ShownPackage,
               result |-> formatPackagePrice(ShownPackage)]
  /\ ConfigUnchanged

\* getTrialInfo passes the introductory price's period to parseSubscriptionPeriod
CallParseSubscriptionPeriod ==
  /\ ProductOf(ShownPackage) # Null
  /\ ProductOf(ShownPackage).introPrice # Null
  /\ LET period == ProductOf(ShownPackage).introPrice.subscriptionPeriod
     IN  event' = [op |-> "parseSubscriptionPeriod", arg |-> period,
                   result |-> parseSubscriptionPeriod(period)]
  /\ ConfigUnchanged

CallGetTrialInfo ==
  /\ event' = [op |-> "getTrialInfo", arg |-> ShownPackage,
               result |-> getTrialInfo(ShownPackage)]
  /\ ConfigUnchanged

CallGetPurchaseButtonText ==
  /\ event' = [op |-> "getPurchaseButtonText", arg |-> ShownPackage,
               result |-> getPurchaseButtonText(ShownPackage)]
  /\ ConfigUnchanged

UtilNext ==
  \/ CallFormatPackagePrice \/ CallParseSubscriptionPeriod
  \/ CallGetTrialInfo \/ CallGetPurchaseButtonText

UtilSpec == UtilInit /\ [][UtilNext]_vars

(***************************************************************************)
(* getPackagesSortedByPrice on its own: the store is live with no current  *)
(* offering or with a current offering of up to MaxPackages packages drawn *)
(* from SortPackages (prices in cents); a step calls the function, event   *)
(* holds the offering's list as it was before the call and the result.     *)
(***************************************************************************)
MaxPackages == 3
SortPackages ==
  { Package("a", 999), Package("b", 499), Package("c", 499),
    [identifier |-> "d"],
    [identifier |-> "e", product |-> [price |-> 499]],
    [identifier |-> "f", storeProduct |-> [price |-> 0], product |-> [price |-> 700]] }
SortLists == UNION {[1..n -> SortPackages] : n \in 0..MaxPackages}

SortInit ==
  /\ platform = "ios"
  /\ env = ProdEnv
  /\ isInitialized = TRUE /\ isLoading = FALSE /\ error = NoError
  /\ customerInfo = CustomerInfo({})
  /\ offerings \in {NoCurrent} \cup {WithCurrent(Offering(l)) : l \in SortLists}
  /\ currentOffering = CurrentOfferingOf(offerings)
  /\ isPremium = IsPremiumOf(customerInfo)
  /\ initPc = "done" /\ initClean = TRUE /\ listeners = 1
  /\ calls = [NoCalls EXCEPT !.configure = 1, !.getCustomerInfo = 1,
                             !.getOfferings = 1,
                             !.addCustomerInfoUpdateListener = 1]
  /\ purchase = Idle /\ restore = Idle /\ refreshes = << >>
  /\ purchaseLoading = FALSE /\ restoreLoading = FALSE
  /\ selectedPackageIndex = 1 /\ opsStarted = 0
  /\ NoReset
  /\ event = [op |-> "none"]

\* [...packages].sort(...) sorts a copy: the offering keeps its list
CallGetPackagesSortedByPrice ==
  /\ event' = [op |-> "getPackagesSortedByPrice",
               arg |-> IF currentOffering = Null THEN << >>
                       ELSE currentOffering.availablePackages,
               result |-> getPackagesSortedByPrice(currentOffering)]
  /\ ConfigUnchanged

SortNext == CallGetPackagesSortedByPrice

SortSpec == SortInit /\ [][SortNext]_vars

(***************************************************************************)
(* The failures of a purchase on their own: the store is live, a purchase  *)
(* is in flight on one of the platforms, and the service settles it with a *)
(* snapshot or with one of PurchaseFailures.                               *)
(***************************************************************************)
PurchaseMessages ==
  { "", "network error", "payment declined", "billing unavailable",
    "payment failed: network down", "billing of payment rejected",
    "Network request failed", "product not available" }
PurchaseFailures ==
  {[message |-> m, userCancelled |-> FALSE] : m \in PurchaseMessages} \cup {Cancelled}

PurchaseInit ==
  /\ platform \in Platforms
  /\ env = ProdEnv
  /\ isInitialized = TRUE /\ isLoading = FALSE /\ error = NoError
  /\ customerInfo \in Snapshots
  /\ offerings \in {WithCurrent(OneOffering), WithCurrent(TwoOffering)}
  /\ currentOffering = CurrentOfferingOf(offerings)
  /\ isPremium = IsPremiumOf(customerInfo)
  /\ initPc = "done" /\ initClean = TRUE /\ listeners = 1
  /\ calls = [NoCalls EXCEPT !.configure = 1, !.getCustomerInfo = 1,
                             !.getOfferings = 1,
                             !.addCustomerInfoUpdateListener = 1,
                             !.purchasePackage = 1]
  /\ purchase = [pkg |-> getPackagesSortedByPrice(currentOffering)[1],
                 errorAtCall |-> NoError, clean |-> TRUE]
  /\ restore = Idle /\ refreshes = << >>
  /\ purchaseLoading = TRUE /\ restoreLoading = FALSE
  /\ selectedPackageIndex = 0 /\ opsStarted = 1
  /\ NoReset
  /\ event = [op |-> "none"]

PurchaseNext == PurchaseSettlesWith(PurchaseFailures)

PurchaseSpec == PurchaseInit /\ [][PurchaseNext]_vars

(***************************************************************************)
(* The reset script (reset-project): a node process started in the project *)
(* directory while the app is not running. disk.root holds the names in    *)
(* the project directory, disk.appFiles the names in app, disk.hasExample  *)
(* and disk.example the archive directory and the directories in it; every *)
(* directory holds files. script.start is the directory as the script      *)
(* found it. One step per file system operation awaited.                   *)
(***************************************************************************)
exampleDir == "revenuecat-framework-example"
newAppDir == "app"
GeneratedAppFiles == {"index.tsx", "_layout.tsx"}

\* String.prototype.trim on the characters of the answer
RECURSIVE trim(_)
trim(chars) ==
  IF chars = << >> THEN << >>
  ELSE IF Head(chars) = " " THEN trim(Tail(chars))
  ELSE IF chars[Len(chars)] = " " THEN trim(SubSeq(chars, 1, Len(chars) - 1))
  ELSE chars

\* answer.trim().toLowerCase() || "y"
userInputOf(answer) ==
  LET t == Join(toLowerCase(trim(answer))) IN IF t = "" THEN "y" ELSE t

Answers ==
  { <<"y">>, <<"Y">>, << >>, <<" ">>, <<"n">>, <<" ", "N", " ">>,
    <<"y", "e", "s">>, <<"q">> }

\* the directories the script may find: any of oldDirs, app as shipped or as
\* an earlier run generated it, the archive absent, empty or filled by an
\* earlier run
ResetDisks ==
  { [ root |-> {"assets"} \cup S, appFiles |-> f, hasExample |-> a[1], example |-> a[2] ] :
      S \in SUBSET {oldDirs[i] : i \in 1..Len(oldDirs)},
      f \in {TemplateAppFiles, GeneratedAppFiles, {}},
      a \in { <<FALSE, {}>>, <<TRUE, {}>>,
              <<TRUE, {oldDirs[i] : i \in 1..Len(oldDirs)}>> } }

ResetInit ==
  /\ platform = "ios"
  /\ env = ProdEnv
  /\ isInitialized = FALSE /\ isLoading = TRUE /\ error = NoError
  /\ customerInfo = Null /\ offerings = Null
  /\ currentOffering = Null /\ isPremium = FALSE
  /\ initPc = "mount" /\ initClean = TRUE /\ listeners = 0 /\ calls = NoCalls
  /\ purchase = Idle /\ restore = Idle /\ refreshes = << >>
  /\ purchaseLoading = FALSE /\ restoreLoading = FALSE
  /\ selectedPackageIndex = 1 /\ opsStarted = 0
  /\ disk \in {d \in ResetDisks : (d.appFiles = {}) <=> ("app" \notin d.root)}
  /\ script = [pc |-> "question", userInput |-> "", i |-> 1, start |-> disk,
               failed |-> FALSE]
  /\ event = [op |-> "none"]

\* the callback of rl.question up to the first awaited operation
Question ==
  /\ script.pc = "question"
  /\ \E answer \in Answers :
       LET userInput == userInputOf(answer)
       IN  /\ script' = [script EXCEPT
                           !.userInput = userInput,
                           !.pc = IF userInput = "y" THEN "mkdirExample"
                                  ELSE IF userInput = "n" THEN "oldDirs"
                                  ELSE "closed"]
           /\ event' = [op |-> "question", answer |-> answer]
  /\ UNCHANGED disk
  /\ AppUnchanged

\* fs.promises.mkdir(exampleDirPath, { recursive: true })
MkdirExample ==
  /\ script.pc = "mkdirExample"
  /\ disk' = [disk EXCEPT !.hasExample = TRUE]
  /\ script' = [script EXCEPT !.pc = "oldDirs"]
  /\ event' = [op |-> "mkdir", path |-> exampleDir]
  /\ AppUnchanged

\* one turn of the loop over oldDirs; a rename onto a directory that holds
\* files is rejected and the catch block ends the script
OldDir ==
  /\ script.pc = "oldDirs"
  /\ LET dir == oldDirs[script.i]
         next == [script EXCEPT !.i = @ + 1,
                                !.pc = IF script.i = Len(oldDirs) THEN "mkdirApp" ELSE @]
         gone == [disk EXCEPT !.root = @ \ {dir},
                              !.appFiles = IF dir = newAppDir THEN {} ELSE @]
     IN  IF dir \notin disk.root
         THEN /\ disk' = disk /\ script' = next
              /\ event' = [op |-> "skip", path |-> dir]
         ELSE IF script.userInput = "y"
         THEN IF dir \in disk.example
              THEN /\ disk' = disk
                   /\ script' = [script EXCEPT !.pc = "closed", !.failed = TRUE]
                   /\ event' = [op |-> "renameFailed", path |-> dir]
              ELSE /\ disk' = [gone EXCEPT !.example = @ \cup {dir}]
                   /\ script' = next
                   /\ event' = [op |-> "rename", path |-> dir]
         ELSE /\ disk' = gone /\ script' = next
              /\ event' = [op |-> "rm", path |-> dir]
  /\ AppUnchanged

\* fs.promises.mkdir(newAppDirPath, { recursive: true })
MkdirApp ==
  /\ script.pc = "mkdirApp"
  /\ disk' = [disk EXCEPT !.root = @ \cup {newAppDir}]
  /\ script' = [script EXCEPT !.pc = "writeIndex"]
  /\ event' = [op |-> "mkdir", path |-> newAppDir]
  /\ AppUnchanged

\* fs.promises.writeFile(indexPath, indexContent)
WriteIndex ==
  /\ script.pc = "writeIndex"
  /\ disk' = [disk EXCEPT !.appFiles = @ \cup {"index.tsx"}]
  /\ script' = [script EXCEPT !.pc = "writeLayout"]
  /\ event' = [op |-> "writeFile", path |-> "index.tsx"]
  /\ AppUnchanged

\* fs.promises.writeFile(layoutPath, layoutContent), then rl.close()
WriteLayout ==
  /\ script.pc = "writeLayout"
  /\ disk' = [disk EXCEPT !.appFiles = @ \cup {"_layout.tsx"}]
  /\ script' = [script EXCEPT !.pc = "closed"]
  /\ event' = [op |-> "writeFile", path |-> "_layout.tsx"]
  /\ AppUnchanged

ResetNext ==
  \/ Question \/ MkdirExample \/ OldDir \/ MkdirApp \/ WriteIndex \/ WriteLayout

ResetSpec == ResetInit /\ [][ResetNext]_vars

\* The mount effect runs after the first render, and every call that
\* initialization makes to the purchasing service returns or fails.
FairSpec ==
  Spec /\ WF_vars(Mount) /\ WF_vars(ConfigureSettles) /\ WF_vars(LoadSettles)

(***************************************************************************)
(* Properties                                                              *)
(***************************************************************************)
\* what the code stores for a failure: its message, or the operation's
\* default when the message is empty
Stored(resp, default) == IF resp.err.message = "" THEN default ELSE resp.err.message
\* the platform's API key is missing or is one of the placeholders
KeyMissingOrPlaceholder ==
  getPlatformApiKey(REVENUECAT_CONFIG(env), platform) \in
    {Unset, TEST_PLACEHOLDER, IOS_PLACEHOLDER, ANDROID_PLACEHOLDER, WEB_PLACEHOLDER}
PurchaseSettled == event.op = "purchase"
PurchaseCancelled == PurchaseSettled /\ ~event.resp.ok /\ event.resp.err.userCancelled
PurchaseFailed == PurchaseSettled /\ ~event.resp.ok /\ ~event.resp.err.userCancelled
PurchaseSucceeded == PurchaseSettled /\ event.resp.ok
RestoreSettled == event.op = "restore"
InitFetched == event.op = "init" /\ event.step = "load"

\* C1: in every reachable state isPremium is true exactly when the configured
\* entitlement identifier is a key of customerInfo's active-entitlements
\* mapping, it is false when customerInfo is none, and the same holds of
\* hasEntitlement for the configured identifier: the flag is always the
\* function of customerInfo, never a value of its own.
C1_PremiumIffEntitled ==
  /\ isPremium = (customerInfo # Null
                  /\ ENTITLEMENT_ID \in DOMAIN customerInfo.entitlements.active)
  /\ (customerInfo = Null => ~isPremium)
  /\ hasEntitlement(customerInfo, ENTITLEMENT_ID) = isPremium
C1_Witness == isPremium /\ PurchaseSucceeded

\* C2: when the platform's API key is missing or a placeholder, the mount
\* step ends initialization in DemoMode: customerInfo none, offerings empty
\* with no current offering, error none, isInitialized, not isLoading, not
\* isPremium, currentOffering none, and no call of the purchasing service
\* has been made and no listener registered.
C2_DemoModeOnInvalidConfig ==
  (event.op = "init" /\ event.step = "mount" /\ KeyMissingOrPlaceholder) =>
    /\ initPc = "done"
    /\ customerInfo = Null
    /\ offerings = [current |-> Null, all |-> << >>]
    /\ error = NoError
    /\ isInitialized /\ ~isLoading /\ ~isPremium
    /\ currentOffering = Null
    /\ calls = NoCalls /\ listeners = 0
C2_Witness ==
  event.op = "init" /\ event.step = "mount" /\ KeyMissingOrPlaceholder /\ initPc = "done"

C4_LiveAfterInit ==
  /\ (InitFetched /\ event.ci.ok /\ event.offs.ok) =>
       /\ customerInfo = event.ci.value
       /\ offerings = event.offs.value
       /\ (event.clean => error = NoError)
       /\ listeners = 1 /\ calls.addCustomerInfoUpdateListener = 1
       /\ isInitialized /\ ~isLoading /\ initPc = "done"
  /\ event.op = "push" =>
       /\ customerInfo = event.info
       /\ event.changed \subseteq {"customerInfo"}
       /\ initPc = "done" /\ listeners = 1
C4_Witness ==
  event.op = "push" /\ isPremium /\ currentOffering # Null /\ error = NoError

\* C5 as claimed: after a user-cancelled purchase error and customerInfo are
\* what they were before the call, also when error was set before the call,
\* and neither purchasePackage raised.
C5_AsClaimed ==
  (PurchaseCancelled /\ event.clean) =>
    /\ error = event.errorAtCall
    /\ "customerInfo" \notin event.changed
    /\ ~event.providerRaised /\ ~event.hookRaised

\* C5 amended: a user-cancelled purchase leaves customerInfo as it was and
\* raises from neither purchasePackage; error is cleared when the purchase
\* starts and is left alone when the cancellation arrives, so after the call
\* it is none, whatever it was before.
C5_CancelledPurchase ==
  /\ event.op = "purchaseStart" => (error = NoError /\ event.changed \subseteq {"error"})
  /\ PurchaseCancelled =>
       /\ event.changed = {}
       /\ (event.clean => error = NoError)
       /\ ~event.providerRaised /\ ~event.hookRaised
C5_Witness ==
  PurchaseCancelled /\ event.clean /\ event.errorAtCall # NoError /\ error = NoError

\* C6: the wrapper reports a user-cancelled purchase neither as a failure nor
\* as a success (no alert of either kind, no navigation away from the
\* paywall), and reports success only when the service returned a snapshot.
C6_CancelIsNeitherFailureNorSuccess ==
  /\ PurchaseCancelled =>
       /\ event.alert \notin {"Purchase Failed", "Purchase Successful!"}
       /\ ~event.navigated
  /\ (PurchaseSettled /\ event.alert = "Purchase Successful!") => event.resp.ok

\* C7: a successful purchasePackage sets customerInfo to the snapshot the
\* service returned and writes nothing else when it settles (offerings,
\* isInitialized, isLoading and error unchanged); error was cleared when the
\* purchase started, so it is none afterwards unless another operation set it.
C7_PurchaseSuccess ==
  /\ event.op = "purchaseStart" => (error = NoError /\ event.changed \subseteq {"error"})
  /\ PurchaseSucceeded =>
       /\ customerInfo = event.resp.value
       /\ event.changed \subseteq {"customerInfo"}
       /\ (event.clean => error = NoError)
       /\ ~event.providerRaised /\ ~event.hookRaised
C7_Witness ==
  PurchaseSucceeded /\ event.clean /\ event.errorAtCall # NoError
  /\ "customerInfo" \in event.changed

\* C8: a purchase failure other than a cancellation sets error to the
\* failure's message ('Purchase failed' when it is empty), leaves
\* customerInfo unchanged, and is raised by the provider and again by the
\* wrapper, which shows the 'Purchase Failed' alert; the paywall stays.
C8_PurchaseFailure ==
  PurchaseFailed =>
    /\ error = Stored(event.resp, "Purchase failed")
    /\ event.changed \subseteq {"error"}
    /\ event.providerRaised /\ event.hookRaised
    /\ event.alert = "Purchase Failed" /\ ~event.navigated
C8_Witness == PurchaseFailed /\ event.resp.err.message = "" /\ error = "Purchase failed"

\* what refreshCustomerInfo does to the store for a response of the service
ActsAsRefresh ==
  /\ event.resp.ok =>
       /\ customerInfo = event.resp.value
       /\ event.changed \subseteq {"customerInfo"}
       /\ (event.clean => error = NoError)
  /\ ~event.resp.ok =>
       /\ error = Stored(event.resp, "Failed to refresh customer info")
       /\ event.changed \subseteq {"error"}

\* C9: on web restorePurchases does to customerInfo and error what
\* refreshCustomerInfo does, for every response of the service, when it
\* starts and when it settles; it calls getCustomerInfo and the service's
\* restore operation is never invoked.
C9_WebRestoreIsRefresh ==
  /\ event.op = "refresh" => ActsAsRefresh
  /\ event.op = "refreshStart" => (error = NoError /\ event.changed \subseteq {"error"})
  /\ (RestoreSettled /\ platform = "web") =>
       (ActsAsRefresh /\ event.call = "getCustomerInfo")
  /\ (event.op = "restoreStart" /\ platform = "web") =>
       (error = NoError /\ event.changed \subseteq {"error"})
  /\ platform = "web" => calls.restorePurchases = 0
C9_Witness == RestoreSettled /\ platform = "web" /\ event.resp.ok /\ isPremium

\* C10 as claimed: whenever the service call of restorePurchases fails, the
\* failure is raised to the caller and error is the failure message.
C10_AsClaimed ==
  (RestoreSettled /\ ~event.resp.ok) =>
    /\ event.providerRaised /\ event.hookRaised
    /\ error # NoError
    /\ (event.resp.err.message # "" => error = event.resp.err.message)

\* C10 amended: on platforms other than web a failed restore sets error to
\* the failure's message ('Failed to restore purchases' when it is empty) and
\* is raised by the provider and by the wrapper, and a successful restore
\* sets customerInfo to the snapshot restore returned; on web a failure of
\* getCustomerInfo sets error ('Failed to refresh customer info' when the
\* message is empty) and is not raised.  refreshCustomerInfo never raises,
\* and a purchase raises only for a failure that is not a cancellation.
C10_RestoreRaises ==
  /\ (RestoreSettled /\ platform # "web") =>
       /\ event.call = "restorePurchases"
       /\ ~event.resp.ok =>
            /\ error = Stored(event.resp, "Failed to restore purchases")
            /\ event.changed \subseteq {"error"}
            /\ event.providerRaised /\ event.hookRaised
            /\ event.alert = "Restore Failed"
       /\ event.resp.ok =>
            /\ customerInfo = event.resp.value
            /\ event.changed \subseteq {"customerInfo"}
            /\ ~event.providerRaised /\ ~event.hookRaised
  /\ (RestoreSettled /\ platform = "web" /\ ~event.resp.ok) =>
       /\ error = Stored(event.resp, "Failed to refresh customer info")
       /\ ~event.providerRaised /\ ~event.hookRaised
  /\ event.op = "refresh" => ~event.providerRaised
  /\ PurchaseSettled => (event.providerRaised <=> PurchaseFailed)
C10_Witness ==
  RestoreSettled /\ platform = "web" /\ ~event.resp.ok /\ ~event.hookRaised
  /\ error = "network error"

\* the store went through the demo branch or the fallback of
\* initializeRevenueCat: offerings is the empty value and no listener exists
DemoMode == initPc = "done" /\ offerings = NoCurrent /\ listeners = 0
\* initialization fetched both snapshots and registered the listener
Live == initPc = "done" /\ listeners = 1

\* C11: refreshCustomerInfo calls the service's getCustomerInfo once in
\* every store state, DemoMode included, after clearing error; when the call
\* succeeds it replaces customerInfo with the returned snapshot and writes
\* nothing else, so error stays none unless another operation set it; when
\* the call fails it sets error to the failure's message ('Failed to refresh
\* customer info' when it is empty), leaves customerInfo unchanged and
\* raises nothing.
C11_RefreshBestEffort ==
  /\ event.op = "refreshStart" =>
       /\ event.serviceCalls = 1
       /\ error = NoError /\ event.changed \subseteq {"error"}
  /\ event.op = "refresh" =>
       /\ ~event.providerRaised
       /\ event.resp.ok =>
            /\ customerInfo = event.resp.value
            /\ "error" \notin event.changed
            /\ (event.clean => error = NoError)
       /\ ~event.resp.ok =>
            /\ error = Stored(event.resp, "Failed to refresh customer info")
            /\ "customerInfo" \notin event.changed
C11_Witness ==
  event.op = "refresh" /\ ~event.resp.ok /\ DemoMode /\ customerInfo # Null
  /\ error = "Failed to refresh customer info"

\* C12: purchaseLoading (isPurchasing) is true when the provider's
\* purchasePackage is invoked and stays true exactly as long as the purchase
\* awaits the service; once it has settled, with a snapshot, a cancellation
\* or a failure that the wrapper raises again, the flag is false.  The same
\* holds of restoreLoading (isRestoring) and restorePurchases.
C12_LoadingFlags ==
  /\ purchaseLoading = (purchase # Idle)
  /\ restoreLoading = (restore # Idle)
  /\ event.op \in {"purchaseStart", "restoreStart"} => event.loadingAtCall
  /\ PurchaseSettled => ~purchaseLoading
  /\ RestoreSettled => ~restoreLoading
C12_Witness ==
  RestoreSettled /\ event.hookRaised /\ ~restoreLoading /\ purchaseLoading

\* the steps of the user-initiated operations that receive the service's answer
Settled == event.op \in {"refresh", "purchase", "restore"}

\* C13: customerInfo is always none or exactly one snapshot delivered by
\* the service, never a merge of two; every push and every successful
\* refresh, purchase or restore replaces it with the snapshot it delivers,
\* also when another of them completed while it was outstanding, and a
\* failed or cancelled operation, the start of an operation and a selection
\* on the paywall leave it alone: after two outstanding writers have both
\* completed, customerInfo is the snapshot of the one that completed last.
C13_LastWriteWins ==
  /\ customerInfo \in Snapshots \cup {Null}
  /\ event.op = "push" => customerInfo = event.info
  /\ (Settled /\ event.resp.ok) => customerInfo = event.resp.value
  /\ (Settled /\ ~event.resp.ok) => "customerInfo" \notin event.changed
  /\ event.op \in {"refreshStart", "purchaseStart", "restoreStart"} =>
       "customerInfo" \notin event.changed
C13_Witness ==
  /\ event.op = "refresh" /\ event.resp.ok /\ event.overtaken
  /\ "customerInfo" \in event.changed
  /\ customerInfo = CustomerInfo({"pro"})

\* C14: no step makes isInitialized false once it is true; initialization
\* never goes back to an earlier position and, once it is done, no step of a
\* purchase, restore, refresh or push calls configure, writes offerings,
\* isInitialized or isLoading, registers a listener, or moves the store out
\* of DemoMode or out of Live; configure is called at most once.
C14_InitOnce ==
  [][ /\ (isInitialized => isInitialized')
      /\ (initPc # "mount" => initPc' # "mount")
      /\ (initPc \in {"load", "done"} => initPc' \in {"load", "done"})
      /\ (initPc = "done" =>
            /\ initPc' = "done"
            /\ calls'.configure = calls.configure
            /\ calls'.getOfferings = calls.getOfferings
            /\ offerings' = offerings /\ listeners' = listeners
            /\ isInitialized' /\ isLoading' = isLoading)
      /\ (DemoMode => DemoMode')
      /\ (Live => Live')
      /\ calls'.configure <= 1 ]_vars
C14_Witness ==
  Live /\ PurchaseFailed /\ isInitialized /\ ~isLoading /\ calls.getCustomerInfo > 1

\* C15: when the mount effect runs and configure and the initial fetch
\* return or fail, the store reaches isInitialized and not isLoading and
\* stays there, from the unconfigured environment, after a failed configure,
\* after a failed fetch and after a full success, whatever the user does
\* meanwhile.
C15_InitTerminates == <>[](isInitialized /\ ~isLoading /\ initPc = "done")
C15_Witness ==
  /\ InitFetched /\ ~event.ci.ok /\ ~event.offs.ok
  /\ isInitialized /\ ~isLoading /\ offerings = Null

\* C16: while the store is in DemoMode no user action starts a call of the
\* purchasing service: no refresh, restore or purchase step that calls the
\* service happens, and the service's purchase operation has never been
\* called.
C16_DemoModeCallsNothing ==
  DemoMode =>
    /\ event.op \notin {"refreshStart", "restoreStart", "purchaseStart"}
    /\ calls.purchasePackage = 0

\* no API-key value is given by the environment
NoKeyGiven ==
  /\ env.REVENUECAT_TEST_API_KEY = Unset /\ env.REVENUECAT_IOS_API_KEY = Unset
  /\ env.REVENUECAT_ANDROID_API_KEY = Unset /\ env.REVENUECAT_WEB_API_KEY = Unset
Validated == event.op = "validateRevenueCatConfig"

\* C17: when the environment gives no API key, validateRevenueCatConfig
\* returns false on every platform and for every value of the test-store
\* flag, in constants/RevenueCat.ts and in part_000.
C17_PlaceholdersRejected == (Validated /\ NoKeyGiven) => ~event.result

\* constants/RevenueCat.ts on its own rejects its placeholders
ConstantsRejectPlaceholders ==
  (Validated /\ NoKeyGiven /\ event.module = "constants/RevenueCat.ts") => ~event.result

\* the test-store flag is enabled unless the environment says exactly "false"
TestStoreEnabled == env.REVENUECAT_USE_TEST_STORE # <<"false">>
KeyResolved == event.op = "getPlatformApiKey" /\ event.module = "constants/RevenueCat.ts"

\* C18: getPlatformApiKey of constants/RevenueCat.ts returns the test-store
\* key on every platform when the test-store flag is enabled, and the flag
\* is enabled for every environment value but "false" (not given, "true",
\* "FALSE"); otherwise it returns the iOS, Android or Web key on ios,
\* android or web and the iOS key on any other platform.  A key is the
\* environment's value, or its placeholder when none is given.
C18_PlatformKey ==
  KeyResolved =>
    event.result =
      IF TestStoreEnabled
      THEN (IF env.REVENUECAT_TEST_API_KEY = Unset THEN TEST_PLACEHOLDER
            ELSE env.REVENUECAT_TEST_API_KEY)
      ELSE IF platform = "android"
           THEN (IF env.REVENUECAT_ANDROID_API_KEY = Unset THEN ANDROID_PLACEHOLDER
                 ELSE env.REVENUECAT_ANDROID_API_KEY)
           ELSE IF platform = "web"
                THEN (IF env.REVENUECAT_WEB_API_KEY = Unset THEN WEB_PLACEHOLDER
                      ELSE env.REVENUECAT_WEB_API_KEY)
                ELSE (IF env.REVENUECAT_IOS_API_KEY = Unset THEN IOS_PLACEHOLDER
                      ELSE env.REVENUECAT_IOS_API_KEY)
C18_Witness ==
  /\ KeyResolved /\ platform = "windows"
  /\ env.REVENUECAT_USE_TEST_STORE = <<"false">>
  /\ env.REVENUECAT_TEST_API_KEY # Unset
  /\ event.result = <<"appl_", "k2">>

\* a formatted price and the data it was made from
Formatted == event.op = "formatPackagePrice"
HasProduct(pkg) == pkg.storeProduct # Null \/ pkg.product # Null
TheProduct(pkg) == IF pkg.storeProduct # Null THEN pkg.storeProduct ELSE pkg.product
\* a price as a string: its price string, else its number in digits
PriceText(x, none) ==
  IF x.priceString # "" THEN x.priceString
  ELSE IF x.price # << >> THEN ToString(x.price[1]) ELSE none
IntroIsZero(ip) == ip.price = <<0>> \/ PriceText(ip, "") \in {"$0.00", "0"}
CycleCount(ip) == IF ip.cycles = << >> THEN 0 ELSE ip.cycles[1]
\* the package with the given string as its price string and no
\* introductory price
Repriced(pkg, str) ==
  IF pkg.storeProduct # Null
  THEN [pkg EXCEPT !.storeProduct.priceString = str]
  ELSE [pkg EXCEPT !.product.priceString = str]

\* C19 as claimed: for a package with a product, formatPackagePrice returns
\* the main price when there is no introductory price; "Free N periods, then
\* {main}" when the introductory price is zero and its cycle count N > 1 and
\* "Free trial, then {main}" when it is zero otherwise; "{intro} for N
\* periods, then {main}" (N > 1) or "{intro} for first period, then {main}"
\* when the introductory price is not zero and differs from the main price;
\* the main price in every other case.
C19_AsClaimed ==
  (Formatted /\ HasProduct(event.arg)) =>
    LET sp == TheProduct(event.arg)
        main == PriceText(sp, "Price unavailable")
        ip == sp.introPrice
    IN  IF ip = Null THEN event.result = main
        ELSE LET intro == PriceText(ip, "")
                 n == CycleCount(ip)
             IN  IF IntroIsZero(ip)
                 THEN event.result =
                        (IF n > 1 THEN "Free " \o ToString(n) \o " periods, then " \o main
                         ELSE "Free trial, then " \o main)
                 ELSE IF intro # "" /\ intro # main
                      THEN event.result =
                             (IF n > 1
                              THEN intro \o " for " \o ToString(n) \o " periods, then " \o main
                              ELSE intro \o " for first period, then " \o main)
                      ELSE event.result = main

\* C19 amended: formatPackagePrice returns "Price unavailable" for a package
\* without a product and the main price when there is no introductory
\* price.  The cycle count qualifies the text only when the introductory
\* price has a subscription period and a cycle count other than 0: then a
\* zero introductory price gives "Free N periods, then {main}" (N > 1) or
\* "Free trial, then {main}", and one that is not zero and differs from the
\* main price gives "{intro} for N periods, then {main}" (N > 1) or "{intro}
\* for first period, then {main}".  Without a period or a cycle count a
\* zero introductory price gives "Free trial, then {main}" and one that
\* differs from the main price gives "{intro} intro, then {main}".  In
\* every other case the result is the main price.  For a package without an
\* introductory price a second call returns the same string, and so does a
\* call on the package whose price string is that result.
C19_FormatPackagePrice ==
  Formatted =>
    IF ~HasProduct(event.arg) THEN event.result = "Price unavailable"
    ELSE
      LET sp == TheProduct(event.arg)
          main == PriceText(sp, "Price unavailable")
          ip == sp.introPrice
      IN  IF ip = Null
          THEN /\ event.result = main
               /\ formatPackagePrice(event.arg) = event.result
               /\ formatPackagePrice(Repriced(event.arg, event.result)) = event.result
          ELSE LET intro == PriceText(ip, "")
                   n == CycleCount(ip)
                   qualified == ip.subscriptionPeriod # << >> /\ n # 0
               IN  IF IntroIsZero(ip)
                   THEN event.result =
                          (IF qualified /\ n > 1
                           THEN "Free " \o ToString(n) \o " periods, then " \o main
                           ELSE "Free trial, then " \o main)
                   ELSE IF intro # "" /\ intro # main
                        THEN event.result =
                               (IF ~qualified THEN intro \o " intro, then " \o main
                                ELSE IF n > 1
                                THEN intro \o " for " \o ToString(n) \o " periods, then " \o main
                                ELSE intro \o " for first period, then " \o main)
                        ELSE event.result = main
C19_Witness ==
  Formatted /\ event.result = "$4.99 intro, then $9.99"

\* a parsed period and the shape of its argument
Parsed == event.op = "parseSubscriptionPeriod"
UnitLetters == {"Y", "M", "W", "D"}
\* the place of a unit letter in P[n]Y[n]M[n]W[n]D
Rank(u) == CASE u = "Y" -> 1 [] u = "M" -> 2 [] u = "W" -> 3 [] u = "D" -> 4
UnitName(u) ==
  CASE u = "Y" -> "year" [] u = "M" -> "month" [] u = "W" -> "week" [] u = "D" -> "day"
\* s is P followed by numbers, each followed by its unit letter, the
\* letters in the order Y, M, W, D
WellFormed(s) ==
  /\ Len(s) >= 1 /\ s[1] = "P"
  /\ \A i \in 2..Len(s) :
       /\ s[i] \in Digits \cup UnitLetters
       /\ s[i] \in UnitLetters => s[i - 1] \in Digits
  /\ Len(s) > 1 => s[Len(s)] \in UnitLetters
  /\ \A i, j \in 2..Len(s) :
       (i < j /\ s[i] \in UnitLetters /\ s[j] \in UnitLetters) => Rank(s[i]) < Rank(s[j])
\* the number written before the unit letter u of a well-formed s
NumberBefore(s, u) ==
  LET i == CHOOSE k \in 1..Len(s) : s[k] = u
      j == CHOOSE k \in 2..(i - 1) :
             /\ \A l \in k..(i - 1) : s[l] \in Digits
             /\ s[k - 1] \notin Digits
      Sum[l \in (j - 1)..(i - 1)] ==
        IF l = j - 1 THEN 0 ELSE Sum[l - 1] * 10 + DigitValue(s[l])
  IN  Sum[i - 1]
\* the unit letter that is honoured: weeks, then days, then months, then years
FirstUnit(present) ==
  IF "W" \in present THEN "W" ELSE IF "D" \in present THEN "D"
  ELSE IF "M" \in present THEN "M" ELSE "Y"

\* C20: parseSubscriptionPeriod returns (1, week) for P1W, (7, day) for P7D
\* and (1, month) for P1M; no result for a string that is not of the form
\* P[n]Y[n]M[n]W[n]D, the empty string included; for a string of that form,
\* the number written before the first unit letter present in the order
\* weeks, days, months, years, with that unit, and no result when no unit
\* letter is present ("P").
C20_ParsePeriod ==
  Parsed =>
    /\ event.arg = <<"P", "1", "W">> => event.result = [value |-> 1, unit |-> "week"]
    /\ event.arg = <<"P", "7", "D">> => event.result = [value |-> 7, unit |-> "day"]
    /\ event.arg = <<"P", "1", "M">> => event.result = [value |-> 1, unit |-> "month"]
    /\ ~WellFormed(event.arg) => event.result = Null
    /\ WellFormed(event.arg) =>
         LET present == {u \in UnitLetters : \E i \in 1..Len(event.arg) : event.arg[i] = u}
         IN  IF present = {} THEN event.result = Null
             ELSE event.result =
                    [value |-> NumberBefore(event.arg, FirstUnit(present)),
                     unit |-> UnitName(FirstUnit(present))]
C20_Witness ==
  /\ Parsed
  /\ event.arg = <<"P", "1", "Y", "2", "M", "3", "W", "4", "D">>
  /\ event.result = [value |-> 3, unit |-> "week"]

\* a trial label and the data it was made from
TrialAsked == event.op = "getTrialInfo"
\* the unit names of PeriodUnits in lower case
UnitText(u) ==
  CASE u = <<"D", "A", "Y">> -> "day"
    [] u = <<"W", "E", "E", "K">> -> "week"
    [] u = <<"M", "o", "n", "t", "h">> -> "month"
    [] u = <<"Y", "E", "A", "R">> -> "year"
    [] u = <<"C", "Y", "C", "L", "E">> -> "cycle"
\* the unit letters present in a period
UnitsIn(s) == {u \in UnitLetters : \E i \in 1..Len(s) : s[i] = u}
\* the period has the form P[n]Y[n]M[n]W[n]D and names a unit
Parsable(s) == WellFormed(s) /\ UnitsIn(s) # {}

\* C21: getTrialInfo returns a label exactly when the package has a product
\* with a zero introductory price.  With a period count n other than 0 and
\* a period unit the label is "n <unit> free", the unit in lower case and
\* with an s exactly when n is not 1 ("7 days free" for 7 and DAY).
\* Otherwise, when the subscription period can be parsed, it is "(value x
\* cycles) <unit> free", the unit with an s unless the product is 1, a
\* missing cycle count standing for 1; and when the period is missing or
\* cannot be parsed, "N periods free" for a cycle count N > 1 and "Free
\* trial" otherwise.
C21_TrialInfo ==
  TrialAsked =>
    IF ~HasProduct(event.arg) THEN event.result = NoLabel
    ELSE
      LET ip == TheProduct(event.arg).introPrice
      IN  IF ip = Null THEN event.result = NoLabel
          ELSE IF ~IntroIsZero(ip) THEN event.result = NoLabel
          ELSE
            LET n == IF ip.periodNumberOfUnits = << >> THEN 0 ELSE ip.periodNumberOfUnits[1]
                cycles == IF CycleCount(ip) = 0 THEN 1 ELSE CycleCount(ip)
                period == ip.subscriptionPeriod
            IN  /\ event.result # NoLabel
                /\ (n = 7 /\ ip.periodUnit = <<"D", "A", "Y">>) => event.result = "7 days free"
                /\ IF n # 0 /\ ip.periodUnit # << >>
                   THEN event.result =
                          ToString(n) \o " " \o UnitText(ip.periodUnit)
                          \o (IF n # 1 THEN "s" ELSE "") \o " free"
                   ELSE IF Parsable(period)
                   THEN LET total == NumberBefore(period, FirstUnit(UnitsIn(period))) * cycles
                        IN  event.result =
                              ToString(total) \o " " \o UnitName(FirstUnit(UnitsIn(period)))
                              \o (IF total # 1 THEN "s" ELSE "") \o " free"
                   ELSE event.result =
                          (IF cycles > 1 THEN ToString(cycles) \o " periods free"
                           ELSE "Free trial")
C21_Witness ==
  /\ TrialAsked /\ event.result = "1 month free"
  /\ HasProduct(event.arg) /\ TheProduct(event.arg).introPrice # Null
  /\ TheProduct(event.arg).introPrice.periodUnit = <<"M", "o", "n", "t", "h">>
  /\ TheProduct(event.arg).introPrice.cycles = <<3>>

\* a sorted list and the list it was made from
Sorted == event.op = "getPackagesSortedByPrice"
Rearrangements(n) == {f \in [1..n -> 1..n] : \A i, j \in 1..n : f[i] = f[j] => i = j}

\* C22: getPackagesSortedByPrice returns the packages of the current
\* offering rearranged: in ascending order of their resolved price, a
\* missing price counting as 0, and packages of equal price in the order
\* they have in the offering; the offering's list is as it was; without a
\* current offering the result is empty; prices [9.99, missing, 4.99] give
\* [missing, 4.99, 9.99].
C22_SortedByPrice ==
  Sorted =>
    /\ currentOffering = Null => event.result = << >>
    /\ currentOffering # Null => currentOffering.availablePackages = event.arg
    /\ Len(event.result) = Len(event.arg)
    /\ \E f \in Rearrangements(Len(event.arg)) :
         /\ \A i \in 1..Len(event.arg) : event.result[i] = event.arg[f[i]]
         /\ \A i, j \in 1..Len(event.arg) :
              i < j =>
                \/ PriceOf(event.result[i]) < PriceOf(event.result[j])
                \/ PriceOf(event.result[i]) = PriceOf(event.result[j]) /\ f[i] < f[j]
    /\ event.arg = <<Package("a", 999), [identifier |-> "d"], Package("b", 499)>> =>
         event.result = <<[identifier |-> "d"], Package("b", 499), Package("a", 999)>>
C22_Witness ==
  /\ Sorted
  /\ event.arg = <<Package("c", 499), Package("a", 999), Package("b", 499)>>
  /\ event.result = <<Package("c", 499), Package("b", 499), Package("a", 999)>>

\* C23: a purchase failure that is not a cancellation is shown with one
\* message: the network message when the error's message contains
\* "network"; else the payment message when it contains "payment"; else the
\* web billing message when the platform is web and it contains "billing";
\* else, and for an error without message, the generic message.
C23_FailureMessage ==
  PurchaseFailed =>
    /\ event.alert = "Purchase Failed"
    /\ event.message =
         (IF includes(event.resp.err.message, "network")
          THEN "Please check your internet connection and try again."
          ELSE IF includes(event.resp.err.message, "payment")
          THEN "There was an issue processing your payment. Please try again."
          ELSE IF platform = "web" /\ includes(event.resp.err.message, "billing")
          THEN "Web billing is not configured. Please contact support."
          ELSE "Please try again later.")
    /\ event.resp.err.message = "" => event.message = "Please try again later."
C23_Witness ==
  /\ PurchaseFailed
  /\ event.resp.err.message = "payment failed: network down"
  /\ event.message = "Please check your internet connection and try again."

\* the script has ended; the directories that the generated files import from
Closed == script.pc = "closed"
ImportedDirs == {"components", "hooks", "constants"}

\* C24: when the reset script has ended after the answer y (also by
\* default) or n, the project directory still has components, hooks and
\* constants, app holds the two generated files and nothing else, and after
\* y each of oldDirs that was there is in the archive directory; after any
\* other answer the directory is as the script found it.
C24_IntegrationPreserved ==
  Closed =>
    IF script.userInput \in {"y", "n"}
    THEN /\ ImportedDirs \cap script.start.root \subseteq disk.root
         /\ newAppDir \in disk.root /\ disk.appFiles = GeneratedAppFiles
         /\ script.userInput = "y" =>
              \A i \in 1..Len(oldDirs) :
                oldDirs[i] \in script.start.root => oldDirs[i] \in disk.example
    ELSE disk = script.start

\* one of the two initial fetches failed
LoadFailed == InitFetched /\ ~(event.ci.ok /\ event.offs.ok)

\* C25 as stated: right after initialization customerInfo and offerings are
\* both from the service or both none.
C25_AsClaimed ==
  InitFetched => ((customerInfo # Null) <=> (offerings # Null))

\* C25: the initial load writes both snapshots or none: when one of
\* getCustomerInfo and getOfferings fails, the step that ends initialization
\* changes neither customerInfo nor offerings and registers no listener, and
\* offerings is none; when both succeed both are stored and the listener is
\* registered; customerInfo and offerings are both set or both none right
\* after initialization unless a refresh or restore wrote the store while the
\* load was outstanding.
C25_LoadAllOrNothing ==
  /\ LoadFailed =>
       /\ event.changed \cap {"customerInfo", "offerings"} = {}
       /\ offerings = Null
       /\ listeners = 0
  /\ (InitFetched /\ event.ci.ok /\ event.offs.ok) =>
       /\ customerInfo = event.ci.value /\ offerings = event.offs.value
       /\ listeners = 1
  /\ (InitFetched /\ event.clean) => ((customerInfo # Null) <=> (offerings # Null))
C25_Witness ==
  /\ LoadFailed /\ event.ci.ok /\ ~event.offs.ok
  /\ customerInfo = Null /\ offerings = Null /\ listeners = 0

\* C26: the listener is registered at most once, by the step that ends a
\* load in which both fetches succeeded, and the load is entered only by a
\* configure that succeeded; in DemoMode no step registers a listener and
\* customerInfo changes only in a step of a refresh, restore or purchase.
C26_ListenerOnce ==
  [][ /\ listeners' <= 1 /\ calls'.addCustomerInfoUpdateListener = listeners'
      /\ (listeners' # listeners =>
            /\ initPc = "load" /\ listeners = 0
            /\ event'.op = "init" /\ event'.step = "load"
            /\ event'.ci.ok /\ event'.offs.ok)
      /\ (initPc # "load" /\ initPc' = "load" =>
            event'.op = "init" /\ event'.step = "configure" /\ event'.ok)
      /\ (DemoMode =>
            /\ listeners' = 0
            /\ (customerInfo' # customerInfo =>
                  event'.op \in {"refresh", "restore", "purchase"})) ]_vars
C26_Witness ==
  /\ InitFetched /\ event.ci.ok /\ event.offs.ok
  /\ listeners = 1 /\ calls.addCustomerInfoUpdateListener = 1 /\ calls.configure = 1

\* C27: in every reachable state the store is initialized when it is not
\* loading, and no step makes isLoading true once it is false.
C27_LoadingEnds ==
  [][ /\ (~isLoading => isInitialized)
      /\ (~isLoading' => isInitialized')
      /\ (~isLoading => ~isLoading') ]_vars
C27_Witness ==
  /\ ~isLoading /\ isInitialized
  /\ event.op = "refresh" /\ ~event.resp.ok /\ initPc = "done"

\* the button text of a package, and a string that begins with "Free"
ButtonAsked == event.op = "getPurchaseButtonText"
BeginsWithFree(str) == Len(str) >= 4 /\ SubSeq(str, 1, 4) = "Free"

\* C28: for one package getPurchaseButtonText returns "Start for free"
\* exactly when getTrialInfo returns a label and exactly when
\* formatPackagePrice returns a string that begins with "Free"; otherwise the
\* button text is "Subscribe now" when the product has a subscription period
\* and "Purchase" when it has none or there is no product.
C28_FreeTrialAgreed ==
  ButtonAsked =>
    /\ (event.result = "Start for free") <=> (getTrialInfo(event.arg) # NoLabel)
    /\ (event.result = "Start for free") <=> BeginsWithFree(formatPackagePrice(event.arg))
    /\ event.result # "Start for free" =>
         event.result =
           (IF HasProduct(event.arg) /\ TheProduct(event.arg).subscriptionPeriod # << >>
            THEN "Subscribe now" ELSE "Purchase")
C28_Witness ==
  /\ ButtonAsked /\ event.result = "Start for free"
  /\ getTrialInfo(event.arg) = "3 weeks free"
  /\ formatPackagePrice(event.arg) = "Free 3 periods, then $9.99"
  /\ HasProduct(event.arg) /\ TheProduct(event.arg).introPrice # Null
  /\ TheProduct(event.arg).introPrice.price = << >>

\* C29: whenever the paywall shows the package list, the selected index is
\* an index of the price-sorted list, for every size of the offering and
\* after any selections, so the purchase button refers to a package.
C29_SelectionValid ==
  (hasPackages /\ ~isLoading) =>
    selectedPackageIndex \in 0..(Len(sortedPackages) - 1)

\* C30: when initialization ended in DemoMode because the platform's API
\* key is missing or a placeholder, the configured indicator the home screen
\* sees is false and, loading being over, its status card is "Configuration
\* Required".
C30_DemoModeCard ==
  (DemoMode /\ KeyMissingOrPlaceholder /\ ~isLoading) =>
    /\ ~HomeScreen_isConfigured
    /\ HomeScreen_statusCard = "Configuration Required"

====
